---- MODULE Spec2Model ----
(***************************************************************************)
(* Model of the declaration parser of lib/Parse/ParseDecl.cpp.             *)
(*                                                                         *)
(* The parser is single threaded.  Its state is the lexer position (toks,  *)
(* pos), the diagnostics emitted so far, the AST arena (Context), the      *)
(* scope stack (ScopeInfo), the current declaration context and the locals *)
(* of the handlers that are running.  The sub-parsers that live in other   *)
(* files (types, value specifiers, brace statements) are modelled by their *)
(* outcome: a nondeterministic choice between failure and each result of a *)
(* small set.                                                              *)
(***************************************************************************)
EXTENDS Integers, Sequences, FiniteSets, TLC

VARIABLES
  pc,              \* control position of the running handler
  diags,           \* diagnostics emitted so far, in order: [kind, loc]
  toks,            \* the token stream (attribute-list parsing)
  pos,             \* index of the current token Tok in toks
  Attributes,      \* the DeclAttributes being filled in
  HadError,        \* parseAttributeListPresent's local
  AttrLoc,         \* location of the first token of the attribute parsed last
  Context,         \* the AST arena: every node allocated so far; a node's
                   \* address is its index, 0 is the null pointer
  CurDeclContext,  \* Parser::CurDeclContext (the address of a node)
  ScopeInfo,       \* the scope stack, innermost scope last; a scope is the
                   \* sequence of declarations inserted into it
  Decls,           \* the caller-supplied result list of parseDeclVar and
                   \* parseDeclStruct
  callers,         \* return positions of the handlers that wait for a callee
  ret,             \* the value returned by the handler that returned last
  vr,              \* locals of parseDeclVar
  fn,              \* locals of parseDeclFunc
  st,              \* locals of parseDeclStruct
  oo,              \* locals of parseDeclOneOf and parseDeclOneOfBody
  pr,              \* locals of parseDeclProtocol and parseProtocolBody
  pd,              \* arguments and locals of parseDecl
  ex,              \* locals of parseDeclExtension
  UnresolvedTypeList  \* ScopeInfo's list of the type names that were used
                   \* before they were declared

attrVars == <<toks, pos, Attributes, HadError, AttrLoc>>
declVars == <<Context, CurDeclContext, ScopeInfo, Decls, callers, ret, vr, fn, st, oo, pr,
              pd, ex, UnresolvedTypeList>>
vars == <<pc, diags, toks, pos, Attributes, HadError, AttrLoc,
          Context, CurDeclContext, ScopeInfo, Decls, callers, ret, vr, fn, st, oo, pr,
          pd, ex, UnresolvedTypeList>>
nonVar    == <<fn, st, oo, pr, pd, ex>>
nonFunc   == <<vr, st, oo, pr, pd, ex>>
nonStruct == <<vr, fn, oo, pr, pd, ex>>
nonOneOf  == <<vr, fn, st, pr, pd, ex>>
nonProto  == <<vr, fn, st, oo, pd, ex>>

(***************************************************************************)
(* Bounds of the model.                                                    *)
(***************************************************************************)
MaxAttrs == 2          \* attributes in one bracketed list
MaxWidth == 2          \* sub-patterns of one parenthesized var-name pattern
MaxCases == 3          \* elements of one oneof body
MaxMembers == 2        \* rounds of the loop over the members of one body
MaxToks == 3           \* tokens of an input of the body loops, before eof

(***************************************************************************)
(* Tokens.  A token has a kind and a text; the text of a numeric constant  *)
(* is kept as its characters, each a one-character string.                *)
(***************************************************************************)
Ident(s)  == [kind |-> "identifier", text |-> s, chars |-> <<>>]
Num(cs)   == [kind |-> "numeric_constant", text |-> "", chars |-> cs]
Punct(k)  == [kind |-> k, text |-> "", chars |-> <<>>]
EofTok    == Punct("eof")

\* The current token; the lexer yields eof for ever at the end of the buffer.
TokAt(i) == IF i \in 1..Len(toks) THEN toks[i] ELSE EofTok


Diag(k, l) == [kind |-> k, loc |-> l]

\* Parser::skipUntil: consume tokens until the current one is of a kind in T,
\* or is eof.  The result is the new position.
RECURSIVE skipUntil(_, _)
skipUntil(i, T) ==
  IF TokAt(i).kind \in T \cup {"eof"} THEN i ELSE skipUntil(i + 1, T)

\* Parser::consumeIf: the new position.
consumeIf(i, k) == IF TokAt(i).kind = k THEN i + 1 ELSE i

(***************************************************************************)
(* llvm::StringRef::getAsInteger(10, long long&): fails on an empty text,  *)
(* on a character that is no digit, and on a value that does not fit a     *)
(* long long.  Value is exact up to four significant digits and saturates  *)
(* at Saturated above (the parser only compares it with 0 and 255).        *)
(***************************************************************************)
DigitVal(c) ==
  CASE c = "0" -> 0 [] c = "1" -> 1 [] c = "2" -> 2 [] c = "3" -> 3
    [] c = "4" -> 4 [] c = "5" -> 5 [] c = "6" -> 6 [] c = "7" -> 7
    [] c = "8" -> 8 [] c = "9" -> 9 [] OTHER -> -1

LLongMaxDigits ==
  <<"9","2","2","3","3","7","2","0","3","6","8","5","4","7","7","5","8","0","7">>

RECURSIVE StripZeros(_)
StripZeros(cs) ==
  IF Len(cs) > 1 /\ cs[1] = "0" THEN StripZeros(Tail(cs)) ELSE cs

\* a > b for two digit strings of the same length
RECURSIVE DigitsGreater(_, _)
DigitsGreater(a, b) ==
  IF a = <<>> THEN FALSE
  ELSE IF DigitVal(a[1]) # DigitVal(b[1]) THEN DigitVal(a[1]) > DigitVal(b[1])
  ELSE DigitsGreater(Tail(a), Tail(b))

RECURSIVE DecimalValue(_, _)
DecimalValue(cs, acc) ==
  IF cs = <<>> THEN acc ELSE DecimalValue(Tail(cs), acc * 10 + DigitVal(cs[1]))

Saturated == DecimalValue(<<"1","0","0","0","0">>, 0)

getAsInteger(cs) ==
  LET s == StripZeros(cs)
      overflow == \/ Len(s) > Len(LLongMaxDigits)
                  \/ Len(s) = Len(LLongMaxDigits) /\ DigitsGreater(s, LLongMaxDigits)
  IN IF cs = <<>> \/ (\E i \in 1..Len(cs) : DigitVal(cs[i]) < 0) \/ overflow
       THEN [fail |-> TRUE, Value |-> 0]
       ELSE [fail |-> FALSE,
             Value |-> IF Len(s) > 4 THEN Saturated ELSE DecimalValue(s, 0)]

(***************************************************************************)
(* Attributes.                                                             *)
(***************************************************************************)
InfixData(prec, assoc) == [isValid |-> TRUE, Prec |-> prec, Assoc |-> assoc]
NoInfix == [isValid |-> FALSE, Prec |-> 0, Assoc |-> "None"]
EmptyAttributes == [Infix |-> NoInfix, LSquareLoc |-> 0, RSquareLoc |-> 0]

isInfixAttr(T) ==
  IF T.text = "infix_left" THEN [ok |-> TRUE, Assoc |-> "Left"]
  ELSE IF T.text = "infix_right" THEN [ok |-> TRUE, Assoc |-> "Right"]
  ELSE IF T.text = "infix" THEN [ok |-> TRUE, Assoc |-> "None"]
  ELSE [ok |-> FALSE, Assoc |-> "None"]

\* parsePrecedence without the range check on the value.
parsePrecedence_NoRangeCheck(p1, Assoc) ==
  LET PrecLoc == p1.pos + 1
      g       == getAsInteger(TokAt(PrecLoc).chars)
  IN
  IF TokAt(PrecLoc).kind = "numeric_constant" THEN
    IF g.fail
      THEN [p1 EXCEPT !.pos = PrecLoc + 1,
                      !.diags = Append(@, Diag("invalid_precedence", PrecLoc))]
      ELSE [p1 EXCEPT !.pos = PrecLoc + 1,
                      !.Attributes.Infix = InfixData(g.Value, Assoc)]
  ELSE
    [p1 EXCEPT !.pos = skipUntil(PrecLoc, {"r_square", "comma"}),
               !.diags = Append(@, Diag("expected_precedence_value", PrecLoc))]

\* The `= value` part of parseAttribute, on the state p1 reached after the
\* fixity keyword: the state after it.
parsePrecedence(p1, Assoc) ==
  LET PrecLoc == p1.pos + 1
      g       == getAsInteger(TokAt(PrecLoc).chars)
  IN
  IF TokAt(PrecLoc).kind = "numeric_constant" THEN
    IF g.fail \/ g.Value > 255 \/ g.Value < 0
      THEN [p1 EXCEPT !.pos = PrecLoc + 1,
                      !.diags = Append(@, Diag("invalid_precedence", PrecLoc))]
      ELSE [p1 EXCEPT !.pos = PrecLoc + 1,
                      !.Attributes.Infix = InfixData(g.Value, Assoc)]
  ELSE
    [p1 EXCEPT !.pos = skipUntil(PrecLoc, {"r_square", "comma"}),
               !.diags = Append(@, Diag("expected_precedence_value", PrecLoc))]

\* Parser::parseAttribute on the parser state p = [pos, Attributes, diags]:
\* the new state and the value returned (TRUE: an error was reported).
parseAttribute(p) ==
  LET T  == TokAt(p.pos)
      ia == isInfixAttr(T)
  IN
  IF T.kind = "identifier" /\ ia.ok THEN
    LET p1 == [pos |-> p.pos + 1,
               Attributes |-> [p.Attributes EXCEPT !.Infix = InfixData(100, ia.Assoc)],
               diags |-> IF p.Attributes.Infix.isValid
                           THEN Append(p.diags, Diag("duplicate_attribute", p.pos))
                           ELSE p.diags]
    IN
    IF TokAt(p1.pos).kind = "equal"
      THEN [p |-> parsePrecedence(p1, ia.Assoc), ret |-> FALSE]
      ELSE [p |-> p1, ret |-> FALSE]
  ELSE
    [p |-> [p EXCEPT !.pos = skipUntil(p.pos, {"r_square"}),
                     !.diags = Append(@, Diag(IF T.kind = "identifier"
                                                THEN "unknown_attribute"
                                                ELSE "expected_attribute_name", p.pos))],
     ret |-> TRUE]

ParserState == [pos |-> pos, Attributes |-> Attributes, diags |-> diags]

(***************************************************************************)
(* Parser::parseAttributeListPresent, in three steps: the opening bracket  *)
(* and the first attribute, one round of the comma loop, and the closing   *)
(* bracket with its recovery.                                              *)
(***************************************************************************)
AttrListBegin ==
  /\ pc = "attr_start"
  /\ TokAt(pos).kind = "l_square"
  /\ LET A1 == [Attributes EXCEPT !.LSquareLoc = pos] IN
     IF TokAt(pos + 1).kind = "r_square"
       THEN /\ Attributes' = [A1 EXCEPT !.RSquareLoc = pos + 1]
            /\ pos' = pos + 2
            /\ pc' = "attr_done"
            /\ UNCHANGED <<diags, HadError, AttrLoc>>
       ELSE LET r == parseAttribute([ParserState EXCEPT !.pos = pos + 1,
                                                        !.Attributes = A1])
            IN /\ pos' = r.p.pos
               /\ Attributes' = r.p.Attributes
               /\ diags' = r.p.diags
               /\ HadError' = r.ret
               /\ AttrLoc' = pos + 1
               /\ pc' = "attr_loop"
  /\ UNCHANGED toks
  /\ UNCHANGED declVars

AttrListComma ==
  /\ pc = "attr_loop"
  /\ TokAt(pos).kind = "comma"
  /\ LET r == parseAttribute([ParserState EXCEPT !.pos = pos + 1])
     IN /\ pos' = r.p.pos
        /\ Attributes' = r.p.Attributes
        /\ diags' = r.p.diags
        /\ HadError' = (HadError \/ r.ret)
        /\ AttrLoc' = pos + 1
  /\ UNCHANGED <<pc, toks>>
  /\ UNCHANGED declVars

AttrListEnd ==
  /\ pc = "attr_loop"
  /\ TokAt(pos).kind # "comma"
  /\ Attributes' = [Attributes EXCEPT !.RSquareLoc = pos]
  /\ IF TokAt(pos).kind = "r_square"
       THEN /\ pos' = pos + 1
            /\ UNCHANGED diags
       ELSE /\ pos' = consumeIf(skipUntil(pos, {"r_square"}), "r_square")
            /\ diags' = IF HadError THEN diags
                        ELSE diags \o <<Diag("expected_in_attribute_list", pos),
                                        Diag("opening_bracket", Attributes.LSquareLoc)>>
  /\ pc' = "attr_done"
  /\ UNCHANGED <<toks, HadError, AttrLoc>>
  /\ UNCHANGED declVars

(***************************************************************************)
(* The attribute lists the parser is run on: `[`, up to MaxAttrs entries   *)
(* separated by commas, and an ending.                                     *)
(***************************************************************************)
InfixKeywords == {"infix_left", "infix_right", "infix"}

NumTexts ==
  { <<"0">>, <<"2","5","5">>, <<"2","5","6">>, <<"3","0","0">>, <<"0","0","7">>,
    <<"1",".","5">>, [i \in 1..20 |-> "9"] }

AttrEntries ==
       { <<Ident(k)>> : k \in InfixKeywords }
  \cup { <<Ident(k), Punct("equal"), Num(n)>> : k \in {"infix_left", "infix"}, n \in NumTexts }
  \cup { <<Ident("infix_right"), Punct("equal"), Ident("foo")>>,
         <<Ident("infix"), Punct("equal")>>,
         <<Ident("foo")>>, <<Num(<<"7">>)>>, <<>> }

AttrEndings ==
  { <<Punct("r_square"), Ident("x")>>, <<>>, <<Ident("x"), Punct("r_square")>> }

RECURSIVE JoinEntries(_)
JoinEntries(es) ==
  IF es = <<>> THEN <<>>
  ELSE IF Len(es) = 1 THEN es[1]
  ELSE es[1] \o <<Punct("comma")>> \o JoinEntries(Tail(es))

EntryLists == UNION { [1..n -> AttrEntries] : n \in 0..MaxAttrs }

AttrInputs ==
  { <<Punct("l_square")>> \o JoinEntries(es) \o e : es \in EntryLists, e \in AttrEndings }

InitAttr ==
  /\ pc = "attr_start"
  /\ diags = <<>>
  /\ toks \in AttrInputs
  /\ pos = 1
  /\ Attributes = EmptyAttributes
  /\ HadError = FALSE
  /\ AttrLoc = 0
  /\ Context = <<>> /\ CurDeclContext = 0 /\ ScopeInfo = <<>> /\ Decls = <<>>
  /\ callers = <<>> /\ ret = <<"none">>
  /\ vr = <<>> /\ fn = <<>> /\ st = <<>> /\ oo = <<>> /\ pr = <<>>
  /\ pd = <<>> /\ ex = <<>> /\ UnresolvedTypeList = <<>>

NextAttr == AttrListBegin \/ AttrListComma \/ AttrListEnd

SpecAttr == InitAttr /\ [][NextAttr]_vars

(***************************************************************************)
(* Properties of the attribute parser.                                     *)
(***************************************************************************)
FixityAt(i) == TokAt(i).kind = "identifier" /\ TokAt(i).text \in InfixKeywords

KeywordAssoc(text) ==
  CASE text = "infix_left" -> "Left" [] text = "infix_right" -> "Right"
    [] OTHER -> "None"

\* The token is a numeric constant that reads as an integer of 0..255.
PrecedenceInRange(T) ==
  /\ T.kind = "numeric_constant"
  /\ T.chars # <<>>
  /\ \A i \in 1..Len(T.chars) : DigitVal(T.chars[i]) >= 0
  /\ Len(StripZeros(T.chars)) <= 3
  /\ DecimalValue(StripZeros(T.chars), 0) <= 255

PrecedenceDiags == {"invalid_precedence", "expected_precedence_value"}

\* C8: the attribute parsed last is a fixity attribute => it is recorded with
\* the keyword's associativity; its precedence is the value after `=` when
\* that is a numeric constant of 0..255 (and then no precedence diagnostic is
\* reported for it), and otherwise the default 100, with a diagnostic at the
\* value when there is a `=`; the recorded precedence is within 0..255.
C8_FixityPrecedence ==
  (AttrLoc # 0 /\ FixityAt(AttrLoc)) =>
    LET hasEq == TokAt(AttrLoc + 1).kind = "equal"
        V     == TokAt(AttrLoc + 2)
        good  == hasEq /\ PrecedenceInRange(V)
        reported == \E i \in 1..Len(diags) :
                      diags[i].loc = AttrLoc + 2 /\ diags[i].kind \in PrecedenceDiags
    IN /\ Attributes.Infix.isValid
       /\ Attributes.Infix.Assoc = KeywordAssoc(TokAt(AttrLoc).text)
       /\ Attributes.Infix.Prec =
            (IF good THEN DecimalValue(StripZeros(V.chars), 0) ELSE 100)
       /\ Attributes.Infix.Prec \in 0..255
       /\ reported = (hasEq /\ ~good)

\* `[infix_left = 300]` has been parsed: associativity left, precedence 100.
C8_Witness ==
  /\ pc = "attr_done"
  /\ FixityAt(AttrLoc) /\ TokAt(AttrLoc).text = "infix_left"
  /\ TokAt(AttrLoc + 1).kind = "equal"
  /\ TokAt(AttrLoc + 2).chars = <<"3","0","0">>
  /\ Attributes.Infix = InfixData(100, "Left")
  /\ \E i \in 1..Len(diags) : diags[i] = Diag("invalid_precedence", AttrLoc + 2)

\* The entries of the bracketed list, by the position of their first token:
\* the list runs from the token after `[` to the first `]` (or eof), and
\* its entries are separated by commas.
ListClose == skipUntil(2, {"r_square"})
EntryStarts == {2} \cup { i + 1 : i \in { j \in 2..(ListClose - 1) : TokAt(j).kind = "comma" } }
EntryEnd(s) == skipUntil(s, {"comma", "r_square"})

WellFormedFixity(s) ==
  /\ FixityAt(s)
  /\ \/ EntryEnd(s) = s + 1
     \/ /\ EntryEnd(s) = s + 3
        /\ TokAt(s + 1).kind = "equal"
        /\ PrecedenceInRange(TokAt(s + 2))

\* An unknown attribute identifier, or an entry that starts with a token
\* that is no attribute name.
UnknownOrMalformed(s) ==
  /\ TokAt(s).kind \notin {"comma", "r_square", "eof"}
  /\ ~FixityAt(s)

ExpectedInfix(s) ==
  InfixData(IF EntryEnd(s) = s + 1 THEN 100
            ELSE DecimalValue(StripZeros(TokAt(s + 2).chars), 0),
            KeywordAssoc(TokAt(s).text))

\* C9: once a list closed by `]` is parsed, a well-formed fixity attribute that follows
\* an unknown or malformed entry of the same list (and is the last fixity
\* attribute of the list) is the one recorded in Attributes.
C9_BadEntryDoesNotPoisonList ==
  (pc = "attr_done" /\ TokAt(ListClose).kind = "r_square") =>
    \A s \in EntryStarts, t \in EntryStarts :
      ( /\ s < t
        /\ UnknownOrMalformed(s)
        /\ WellFormedFixity(t)
        /\ \A u \in EntryStarts : u > t => ~FixityAt(u) )
      => Attributes.Infix = ExpectedInfix(t)

(***************************************************************************)
(* The AST.  Types are tagged tuples; declarations, function expressions   *)
(* and the oneof and protocol types (which are declaration contexts and    *)
(* are patched after construction) are nodes of the arena.                 *)
(***************************************************************************)
NullTy == <<>>
DependentType == <<"dependent">>
NamedType(n) == <<"named", n>>
TupleType(fields) == <<"tuple", fields>>          \* fields: <<name, type>>
FunctionType(a, r) == <<"fn", a, r>>
EmptyTupleType == TupleType(<<>>)
AliasType(tad) == <<"alias", tad>>                \* TypeAliasDecl::getAliasType
OneOfTypeRef(n) == <<"oneof", n>>
ProtocolTypeRef(n) == <<"protocol", n>>
IntType == NamedType("Int")

\* Locations of the declaration model are sequences of numbers.
TopLoc == <<1>>

TranslationUnit == [kind |-> "TranslationUnit", UnresolvedTypesForParser |-> <<>>]
FuncExpr(Ty, DC) == [kind |-> "FuncExpr", Ty |-> Ty, hasBody |-> FALSE, DC |-> DC]
TypeAliasDecl(Loc, Name, Ty, DC) ==
  [kind |-> "TypeAlias", Loc |-> Loc, Name |-> Name, Underlying |-> Ty, DC |-> DC]
VarDecl(Loc, Name, NestedName, Ty, Init, Attrs, DC) ==
  [kind |-> "Var", Loc |-> Loc, Name |-> Name, NestedName |-> NestedName,
   Ty |-> Ty, Init |-> Init, Attrs |-> Attrs, DC |-> DC]
ElementRefDecl(VD, Loc, Name, AccessPath, Ty, DC) ==
  [kind |-> "ElementRef", VD |-> VD, Loc |-> Loc, Name |-> Name,
   AccessPath |-> AccessPath, Ty |-> Ty, DC |-> DC]

\* ScopeInfo.addToScope: the declaration enters the innermost scope.
addToScope(scopes, D) == [scopes EXCEPT ![Len(scopes)] = Append(@, D)]

\* The declarations visible in the scope stack.
InScope(scopes) ==
  UNION { { scopes[i][j] : j \in 1..Len(scopes[i]) } : i \in 1..Len(scopes) }

\* A handler returns v to the handler that called it (or to the driver).
Return(v) ==
  /\ ret' = v
  /\ pc' = IF callers = <<>> THEN "done" ELSE Head(callers)
  /\ callers' = IF callers = <<>> THEN <<>> ELSE Tail(callers)

RetBool(b) == <<"bool", b>>
RetPtr(n) == <<"ptr", n>>

(***************************************************************************)
(* var declarations.                                                       *)
(*                                                                         *)
(* A DeclVarName is a single name or a parenthesized list of sub-patterns. *)
(* A name is identified by the place where it stands in the pattern, which *)
(* also serves as its source location.                                     *)
(***************************************************************************)
SimpleName(loc) == [isSimple |-> TRUE, Id |-> loc, Loc |-> loc, Elements |-> <<>>]
TupleName(loc, elts) == [isSimple |-> FALSE, Id |-> loc, Loc |-> loc, Elements |-> elts]

\* The patterns parseVarName can return for the tokens at place `at`, nested
\* at most d deep.
RECURSIVE VarNames(_, _)
VarNames(at, d) ==
  {SimpleName(at)} \cup
  (IF d = 0 THEN {}
   ELSE UNION { { TupleName(at, f) :
                    f \in { g \in [1..n -> UNION { VarNames(Append(at, i - 1), d - 1) : i \in 1..n }] :
                              \A i \in 1..n : g[i] \in VarNames(Append(at, i - 1), d - 1) } } :
                n \in 0..MaxWidth })

IntPair == TupleType(<< <<"", IntType>>, <<"", IntType>> >>)
\* The types a value specifier can give; NullTy: no type was written.
VarTypes ==
  { NullTy, IntType, IntPair, TupleType(<< <<"", IntType>>, <<"", IntPair>> >>) }

\* ElementRefDecl::getTypeForPath: the type of the element of Ty that Path
\* leads to; a dependent type stays dependent, an index past the arity of a
\* tuple or into a type that is no tuple gives the null type.
RECURSIVE getTypeForPath(_, _)
getTypeForPath(Ty, Path) ==
  IF Path = <<>> THEN Ty
  ELSE IF Ty[1] = "dependent" THEN Ty
  ELSE IF Ty[1] = "tuple"
    THEN IF Path[1] >= Len(Ty[2]) THEN NullTy
         ELSE getTypeForPath(Ty[2][Path[1] + 1][2], Tail(Path))
  ELSE NullTy

\* Parser::actOnVarDeclName on s = [Context, ScopeInfo, Decls, diags,
\* AccessPath]; actOnVarDeclNameElements is its loop over the elements of a
\* parenthesized name, from the element numbered Index on.
RECURSIVE actOnVarDeclName(_, _, _)
RECURSIVE actOnVarDeclNameElements(_, _, _, _)
\* actOnVarDeclName without the AccessPath.pop_back() after the elements.
actOnVarDeclName_NoPop(Name, s, VD) ==
  IF Name.isSimple THEN
    LET Ty == getTypeForPath(s.Context[VD].Ty, s.AccessPath) IN
    IF Ty = NullTy
      THEN [s EXCEPT !.diags = Append(@, Diag("invalid_index_in_var_name_path", Name.Loc))]
      ELSE LET ERD == Len(s.Context) + 1 IN
           [s EXCEPT !.Context = Append(@, ElementRefDecl(VD, Name.Loc, Name.Id,
                                                          s.AccessPath, Ty, CurDeclContext)),
                     !.Decls = Append(@, ERD),
                     !.ScopeInfo = addToScope(@, ERD)]
  ELSE
    actOnVarDeclNameElements(Name.Elements, 0, [s EXCEPT !.AccessPath = Append(@, 0)], VD)

actOnVarDeclName(Name, s, VD) ==
  IF Name.isSimple THEN
    LET Ty == getTypeForPath(s.Context[VD].Ty, s.AccessPath) IN
    IF Ty = NullTy
      THEN [s EXCEPT !.diags = Append(@, Diag("invalid_index_in_var_name_path", Name.Loc))]
      ELSE LET ERD == Len(s.Context) + 1 IN
           [s EXCEPT !.Context = Append(@, ElementRefDecl(VD, Name.Loc, Name.Id,
                                                          s.AccessPath, Ty, CurDeclContext)),
                     !.Decls = Append(@, ERD),
                     !.ScopeInfo = addToScope(@, ERD)]
  ELSE
    LET s1 == [s EXCEPT !.AccessPath = Append(@, 0)]
        s2 == actOnVarDeclNameElements(Name.Elements, 0, s1, VD)
    IN [s2 EXCEPT !.AccessPath = SubSeq(@, 1, Len(@) - 1)]

actOnVarDeclNameElements(Elements, Index, s, VD) ==
  IF Elements = <<>> THEN s
  ELSE actOnVarDeclNameElements(
         Tail(Elements), Index + 1,
         actOnVarDeclName(Head(Elements),
                          [s EXCEPT !.AccessPath[Len(s.AccessPath)] = Index], VD),
         VD)

\* The single name that is an operator token (tok::oper).
OperName == [isSimple |-> TRUE, Id |-> <<-1>>, Loc |-> <<>>, Elements |-> <<>>]

NoVar == [active |-> FALSE, VarLoc |-> <<>>, Attributes |-> EmptyAttributes,
          VarName |-> SimpleName(<<>>), Ty |-> NullTy, Init |-> FALSE]

DeclAttributes ==
  { EmptyAttributes,
    [Infix |-> InfixData(100, "Left"), LSquareLoc |-> 1, RSquareLoc |-> 3] }

\* The inputs of a parser that the driver starts are drawn from the set S,
\* those of a parser that parses a member of a protocol body from the
\* smaller set M.
InputsFrom(S, M) == IF callers = <<>> THEN S ELSE M

\* parseDeclVar_Name entering a single name into the scope as soon as it is
\* parsed, before the value specifier.
parseDeclVar_Name_EarlyInsert ==
  /\ pc = "var_start"
  /\ \E attrs \in InputsFrom(DeclAttributes, {EmptyAttributes}) :
       \/ /\ vr' = [vr EXCEPT !.active = TRUE, !.Attributes = attrs]
          /\ Return(RetBool(TRUE))
          /\ UNCHANGED <<Context, ScopeInfo>>
       \/ \E name \in InputsFrom(VarNames(<<>>, 2) \cup {OperName}, VarNames(<<>>, 1)) :
            /\ vr' = [vr EXCEPT !.active = TRUE, !.Attributes = attrs, !.VarName = name]
            /\ IF name.isSimple
                 THEN /\ Context' = Append(Context, VarDecl(vr.VarLoc, name.Id, <<>>, DependentType,
                                                            FALSE, attrs, CurDeclContext))
                      /\ ScopeInfo' = addToScope(ScopeInfo, Len(Context) + 1)
                 ELSE UNCHANGED <<Context, ScopeInfo>>
            /\ pc' = "var_valspec"
            /\ UNCHANGED <<callers, ret>>
  /\ UNCHANGED <<diags, CurDeclContext, Decls>>
  /\ UNCHANGED nonVar
  /\ UNCHANGED attrVars
  /\ UNCHANGED UnresolvedTypeList

\* parseDeclVar up to the var-name: `var`, the attribute list, the pattern.
parseDeclVar_Name ==
  /\ pc = "var_start"
  /\ \E attrs \in InputsFrom(DeclAttributes, {EmptyAttributes}) :
       \/ \* parseVarName fails
          /\ vr' = [vr EXCEPT !.active = TRUE, !.Attributes = attrs]
          /\ Return(RetBool(TRUE))
       \/ \E name \in InputsFrom(VarNames(<<>>, 2) \cup {OperName}, VarNames(<<>>, 1)) :
            /\ vr' = [vr EXCEPT !.active = TRUE, !.Attributes = attrs, !.VarName = name]
            /\ pc' = "var_valspec"
            /\ UNCHANGED <<callers, ret>>
  /\ UNCHANGED <<diags, Context, CurDeclContext, ScopeInfo, Decls>>
  /\ UNCHANGED nonVar
  /\ UNCHANGED attrVars
  /\ UNCHANGED UnresolvedTypeList

\* parseDeclVar: parseValueSpecifier.  A type name that is not declared yet
\* is entered into the scope as a type alias without underlying type.
parseDeclVar_ValueSpecifier ==
  /\ pc = "var_valspec"
  /\ \E forward \in BOOLEAN :
       /\ forward => \A d \in InScope(ScopeInfo) :
                       ~(Context[d].kind = "TypeAlias" /\ Context[d].Name = "Fwd")
       /\ IF forward
            THEN /\ Context' = Append(Context,
                         TypeAliasDecl(vr.VarLoc, "Fwd", NullTy, CurDeclContext))
                 /\ ScopeInfo' = addToScope(ScopeInfo, Len(Context) + 1)
                 /\ UnresolvedTypeList' = Append(UnresolvedTypeList, Len(Context) + 1)
            ELSE UNCHANGED <<Context, ScopeInfo, UnresolvedTypeList>>
       /\ \/ /\ Return(RetBool(TRUE))
             /\ UNCHANGED vr
          \/ \E Ty \in InputsFrom(VarTypes, {NullTy, IntType}) :
             \E Init \in InputsFrom(BOOLEAN, {Ty = NullTy}) :
               /\ Ty # NullTy \/ Init
               /\ vr' = [vr EXCEPT !.Ty = Ty, !.Init = Init]
               /\ pc' = "var_act"
               /\ UNCHANGED <<callers, ret>>
  /\ UNCHANGED <<diags, CurDeclContext, Decls>>
  /\ UNCHANGED nonVar
  /\ UNCHANGED attrVars

\* parseDeclVar after the value specifier: the VarDecl, and for a
\* parenthesized name the declarations of its elements.
parseDeclVar_Act ==
  /\ pc = "var_act"
  /\ LET Ty == IF vr.Ty = NullTy THEN DependentType ELSE vr.Ty
         VD == Len(Context) + 1
     IN
     IF vr.VarName.isSimple
       THEN /\ Context' = Append(Context, VarDecl(vr.VarLoc, vr.VarName.Id, <<>>, Ty,
                                                   vr.Init, vr.Attributes, CurDeclContext))
            /\ ScopeInfo' = addToScope(ScopeInfo, VD)
            /\ Decls' = Append(Decls, VD)
            /\ UNCHANGED diags
       ELSE LET s0 == [Context |-> Append(Context, VarDecl(vr.VarLoc, <<>>, vr.VarName, Ty,
                                                   vr.Init, vr.Attributes, CurDeclContext)),
                       ScopeInfo |-> ScopeInfo,
                       Decls |-> Append(Decls, VD),
                       diags |-> diags,
                       AccessPath |-> <<>>]
                s1 == actOnVarDeclName(vr.VarName, s0, VD)
            IN /\ Context' = s1.Context
               /\ ScopeInfo' = s1.ScopeInfo
               /\ Decls' = s1.Decls
               /\ diags' = s1.diags
  /\ Return(RetBool(FALSE))
  /\ UNCHANGED <<CurDeclContext, vr>>
  /\ UNCHANGED nonVar
  /\ UNCHANGED attrVars
  /\ UNCHANGED UnresolvedTypeList

(***************************************************************************)
(* func declarations.                                                      *)
(***************************************************************************)
FuncDecl(Loc, Name, Ty, FE, Attrs, DC) ==
  [kind |-> "Func", Loc |-> Loc, Name |-> Name, Ty |-> Ty, Init |-> FE,
   Attrs |-> Attrs, DC |-> DC]

\* ScopeInfo.lookupOrInsertTypeName on s = [Context, ScopeInfo]: the alias
\* type of the type alias of that name in scope; a name that is not in scope
\* is entered as a type alias without underlying type.
lookupOrInsertTypeName(Name, Loc, s) ==
  LET found == { d \in InScope(s.ScopeInfo) :
                   s.Context[d].kind = "TypeAlias" /\ s.Context[d].Name = Name }
  IN IF found # {}
       THEN [Context |-> s.Context, ScopeInfo |-> s.ScopeInfo,
             Ty |-> AliasType(CHOOSE d \in found : TRUE)]
       ELSE [Context |-> Append(s.Context, TypeAliasDecl(Loc, Name, NullTy, CurDeclContext)),
             ScopeInfo |-> addToScope(s.ScopeInfo, Len(s.Context) + 1),
             Ty |-> AliasType(Len(s.Context) + 1)]

\* The types parseType can return for a type that starts with `(`.
FuncWrittenTypes ==
  { EmptyTupleType,
    TupleType(<< <<"x", IntType>> >>),
    FunctionType(EmptyTupleType, IntType) }

\* ReceiverTy is the argument of parseDeclFunc; Tok is the kind of the
\* current token once the name is parsed; Method, TypeName, BodyFailed,
\* EntryDepth and EntryContext record what happened, for the properties.
NoFunc == [active |-> FALSE, FuncLoc |-> <<>>, Attributes |-> EmptyAttributes,
           Name |-> "", ReceiverTy |-> NullTy, ArgReceiverTy |-> NullTy,
           Tok |-> "", Written |-> NullTy, FuncTy |-> NullTy, FE |-> 0,
           SavedContext |-> 0, Method |-> FALSE, TypeName |-> "",
           BodyFailed |-> FALSE, EntryDepth |-> 0, EntryContext |-> 0]

\* parseDeclFunc up to the name: `func`, the attribute list, the name, and
\* with method syntax the receiver type and the second name.
parseDeclFunc_Name ==
  /\ pc = "func_start"
  /\ \E attrs \in InputsFrom(DeclAttributes, {EmptyAttributes}) :
     LET f0 == [fn EXCEPT !.active = TRUE, !.Attributes = attrs,
                          !.ArgReceiverTy = fn.ReceiverTy,
                          !.EntryDepth = Len(ScopeInfo),
                          !.EntryContext = CurDeclContext]
     IN
       \/ \* parseIdentifier fails
          /\ fn' = f0
          /\ Return(RetPtr(0))
          /\ UNCHANGED <<Context, ScopeInfo, UnresolvedTypeList>>
       \/ \* a name that is not followed by `::`, or a receiver from the caller
          \E tok \in {"l_paren", "coloncolon", "other"} :
            /\ tok = "coloncolon" => fn.ReceiverTy # NullTy
            /\ fn' = [f0 EXCEPT !.Name = "f", !.Tok = tok]
            /\ pc' = "func_type"
            /\ UNCHANGED <<Context, ScopeInfo, UnresolvedTypeList, callers, ret>>
       \/ \* method syntax: Type :: name
          /\ fn.ReceiverTy = NullTy
          /\ LET r == lookupOrInsertTypeName("T", fn.FuncLoc,
                                             [Context |-> Context, ScopeInfo |-> ScopeInfo])
                 f1 == [f0 EXCEPT !.ReceiverTy = r.Ty, !.Method = TRUE, !.TypeName = "T"]
             IN /\ Context' = r.Context
                /\ ScopeInfo' = r.ScopeInfo
                /\ UnresolvedTypeList' =
                     IF Len(r.Context) > Len(Context)
                       THEN Append(UnresolvedTypeList, Len(r.Context))
                       ELSE UnresolvedTypeList
                /\ \/ /\ fn' = f1
                      /\ Return(RetPtr(0))
                   \/ \E tok \in {"l_paren", "coloncolon", "other"} :
                        /\ fn' = [f1 EXCEPT !.Name = "f", !.Tok = tok]
                        /\ pc' = "func_type"
                        /\ UNCHANGED <<callers, ret>>
  /\ UNCHANGED <<diags, CurDeclContext, Decls>>
  /\ UNCHANGED nonFunc
  /\ UNCHANGED attrVars

\* parseDeclFunc_Type that leaves a type without `->` as it is written.
parseDeclFunc_Type_NoImplicitReturn ==
  /\ pc = "func_type"
  /\ IF fn.Tok # "l_paren"
       THEN /\ diags' = Append(diags, Diag("func_decl_without_paren", fn.FuncLoc))
            /\ Return(RetPtr(0))
            /\ UNCHANGED fn
       ELSE \/ /\ Return(RetPtr(0))
               /\ UNCHANGED <<fn, diags>>
            \/ \E W \in InputsFrom(FuncWrittenTypes, {EmptyTupleType}) :
                 /\ fn' = [fn EXCEPT
                        !.Written = W,
                        !.FuncTy = IF fn.ReceiverTy # NullTy
                                     THEN FunctionType(TupleType(<< <<"this", fn.ReceiverTy>> >>), W)
                                     ELSE W]
                 /\ pc' = "func_scope"
                 /\ UNCHANGED <<diags, callers, ret>>
  /\ UNCHANGED <<Context, CurDeclContext, ScopeInfo, Decls>>
  /\ UNCHANGED nonFunc
  /\ UNCHANGED attrVars
  /\ UNCHANGED UnresolvedTypeList

\* parseDeclFunc: the type, which must start with `(`, made a function type
\* and wrapped into the receiver.
parseDeclFunc_Type ==
  /\ pc = "func_type"
  /\ IF fn.Tok # "l_paren"
       THEN /\ diags' = Append(diags, Diag("func_decl_without_paren", fn.FuncLoc))
            /\ Return(RetPtr(0))
            /\ UNCHANGED fn
       ELSE \/ \* parseType fails
               /\ Return(RetPtr(0))
               /\ UNCHANGED <<fn, diags>>
            \/ \E W \in InputsFrom(FuncWrittenTypes, {EmptyTupleType}) :
                 LET F == IF W[1] # "fn" THEN FunctionType(W, EmptyTupleType) ELSE W IN
                 /\ fn' = [fn EXCEPT
                        !.Written = W,
                        !.FuncTy = IF fn.ReceiverTy # NullTy
                                     THEN FunctionType(TupleType(<< <<"this", fn.ReceiverTy>> >>), F)
                                     ELSE F]
                 /\ pc' = "func_scope"
                 /\ UNCHANGED <<diags, callers, ret>>
  /\ UNCHANGED <<Context, CurDeclContext, ScopeInfo, Decls>>
  /\ UNCHANGED nonFunc
  /\ UNCHANGED attrVars
  /\ UNCHANGED UnresolvedTypeList

\* parseDeclFunc: Scope FnBodyScope, actOnFuncExprStart, ContextChange CC.
parseDeclFunc_EnterBody ==
  /\ pc = "func_scope"
  /\ ScopeInfo' = Append(ScopeInfo, <<>>)
  /\ Context' = Append(Context, FuncExpr(fn.FuncTy, CurDeclContext))
  /\ CurDeclContext' = Len(Context) + 1
  /\ fn' = [fn EXCEPT !.FE = Len(Context) + 1, !.SavedContext = CurDeclContext]
  /\ pc' = "func_body"
  /\ UNCHANGED <<diags, Decls, callers, ret>>
  /\ UNCHANGED nonFunc
  /\ UNCHANGED attrVars
  /\ UNCHANGED UnresolvedTypeList

\* parseDeclFunc: the optional body.  The statements of the body can
\* declare names, which enter the scope of the body.
parseDeclFunc_Body ==
  /\ pc = "func_body"
  /\ \/ \* no `{`: the function has no body
        /\ fn' = [fn EXCEPT !.FE = 0]
        /\ UNCHANGED <<Context, ScopeInfo>>
     \/ \E local \in InputsFrom(BOOLEAN, {FALSE}), ok \in BOOLEAN :
          LET C1 == IF local
                      THEN Append(Context, VarDecl(Append(fn.FuncLoc, 0), <<0>>, <<>>, IntType,
                                                   TRUE, EmptyAttributes, CurDeclContext))
                      ELSE Context
          IN /\ ScopeInfo' = IF local THEN addToScope(ScopeInfo, Len(C1)) ELSE ScopeInfo
             /\ IF ok
                  THEN /\ Context' = [C1 EXCEPT ![fn.FE].hasBody = TRUE]
                       /\ UNCHANGED fn
                  ELSE /\ Context' = C1
                       /\ fn' = [fn EXCEPT !.FE = 0, !.BodyFailed = TRUE]
  /\ pc' = "func_leave"
  /\ UNCHANGED <<diags, CurDeclContext, Decls, callers, ret>>
  /\ UNCHANGED nonFunc
  /\ UNCHANGED attrVars
  /\ UNCHANGED UnresolvedTypeList

\* parseDeclFunc_LeaveBody as a hand-written pop that an error skips.
parseDeclFunc_LeaveBody_SkippedOnError ==
  /\ pc = "func_leave"
  /\ IF fn.BodyFailed
       THEN UNCHANGED <<CurDeclContext, ScopeInfo>>
       ELSE /\ CurDeclContext' = fn.SavedContext
            /\ ScopeInfo' = SubSeq(ScopeInfo, 1, Len(ScopeInfo) - 1)
  /\ pc' = "func_finish"
  /\ UNCHANGED <<diags, Context, Decls, callers, ret, fn>>
  /\ UNCHANGED nonFunc
  /\ UNCHANGED attrVars
  /\ UNCHANGED UnresolvedTypeList

\* parseDeclFunc: the end of the block of the body: CC restores the context
\* and FnBodyScope pops the scope.
parseDeclFunc_LeaveBody ==
  /\ pc = "func_leave"
  /\ CurDeclContext' = fn.SavedContext
  /\ ScopeInfo' = SubSeq(ScopeInfo, 1, Len(ScopeInfo) - 1)
  /\ pc' = "func_finish"
  /\ UNCHANGED <<diags, Context, Decls, callers, ret, fn>>
  /\ UNCHANGED nonFunc
  /\ UNCHANGED attrVars
  /\ UNCHANGED UnresolvedTypeList

\* parseDeclFunc_Finish giving up a function whose body failed to parse.
parseDeclFunc_Finish_NullOnBodyError ==
  /\ pc = "func_finish"
  /\ IF fn.BodyFailed
       THEN /\ Return(RetPtr(0))
            /\ UNCHANGED <<Context, ScopeInfo>>
       ELSE /\ Context' = Append(Context, FuncDecl(fn.FuncLoc, fn.Name, fn.FuncTy, fn.FE,
                                                   fn.Attributes, CurDeclContext))
            /\ ScopeInfo' = addToScope(ScopeInfo, Len(Context) + 1)
            /\ Return(RetPtr(Len(Context) + 1))
  /\ UNCHANGED <<diags, CurDeclContext, Decls, fn>>
  /\ UNCHANGED nonFunc
  /\ UNCHANGED attrVars
  /\ UNCHANGED UnresolvedTypeList

\* parseDeclFunc: the FuncDecl, entered into the scope.
parseDeclFunc_Finish ==
  /\ pc = "func_finish"
  /\ Context' = Append(Context, FuncDecl(fn.FuncLoc, fn.Name, fn.FuncTy, fn.FE,
                                         fn.Attributes, CurDeclContext))
  /\ ScopeInfo' = addToScope(ScopeInfo, Len(Context) + 1)
  /\ Return(RetPtr(Len(Context) + 1))
  /\ UNCHANGED <<diags, CurDeclContext, Decls, fn>>
  /\ UNCHANGED nonFunc
  /\ UNCHANGED attrVars
  /\ UNCHANGED UnresolvedTypeList

(***************************************************************************)
(* oneof and struct declarations.                                          *)
(***************************************************************************)
OneOfElementDecl(Loc, Name, Ty, ArgTy, DC) ==
  [kind |-> "OneOfElement", Loc |-> Loc, Name |-> Name, Ty |-> Ty, ArgTy |-> ArgTy,
   DC |-> DC]
OneOfType(Loc, Elements, DC) ==
  [kind |-> "OneOfType", Loc |-> Loc, Elements |-> Elements, DC |-> DC]
OneOfElementInfo(Name, NameLoc, EltType) ==
  [Name |-> Name, NameLoc |-> NameLoc, EltType |-> EltType]

\* ScopeInfo.addTypeAliasToScope on s = [Context, ScopeInfo]: the type alias
\* of that name, entered into the scope; a forward reference to the name
\* that is in scope without underlying type is the alias that is defined.
addTypeAliasToScope(Loc, Name, Ty, s) ==
  LET fwd == { d \in InScope(s.ScopeInfo) :
                 /\ s.Context[d].kind = "TypeAlias"
                 /\ s.Context[d].Name = Name
                 /\ s.Context[d].Underlying = NullTy }
  IN IF fwd # {}
       THEN LET d == CHOOSE x \in fwd : TRUE IN
            [Context |-> [s.Context EXCEPT ![d].Underlying = Ty],
             ScopeInfo |-> s.ScopeInfo, TAD |-> d]
       ELSE [Context |-> Append(s.Context, TypeAliasDecl(Loc, Name, Ty, CurDeclContext)),
             ScopeInfo |-> addToScope(s.ScopeInfo, Len(s.Context) + 1),
             TAD |-> Len(s.Context) + 1]

\* The index of the first declaration of EltDecls that has the name, or 0.
FirstNamed(C, EltDecls, Name) ==
  LET hits == { I \in 1..Len(EltDecls) : C[EltDecls[I]].Name = Name }
  IN IF hits = {} THEN 0 ELSE CHOOSE I \in hits : \A J \in hits : I <= J

\* One round of the loop over Elts of actOnOneOfType, without the
\* `continue` that skips a duplicate.
actOnOneOfElement_KeepDuplicate(t, Elt, TmpTy, PrettyTypeName) ==
  LET I  == FirstNamed(t.Context, t.EltDecls, Elt.Name)
      d1 == IF Elt.Name \in t.SeenSoFar
              THEN Append(t.diags, Diag("duplicate_oneof_element", Elt.NameLoc))
                   \o (IF I = 0 THEN <<>>
                       ELSE <<Diag("previous_definition", t.Context[t.EltDecls[I]].Loc)>>)
              ELSE t.diags
      EltTy == IF Elt.EltType # NullTy /\ PrettyTypeName # 0
                 THEN FunctionType(Elt.EltType, TmpTy) ELSE TmpTy
  IN [t EXCEPT !.diags = d1,
               !.SeenSoFar = @ \cup {Elt.Name},
               !.Context = Append(@, OneOfElementDecl(Elt.NameLoc, Elt.Name, EltTy,
                                                      Elt.EltType, CurDeclContext)),
               !.EltDecls = Append(@, Len(t.Context) + 1)]

\* One round of the loop over Elts of actOnOneOfType, on
\* t = [Context, diags, SeenSoFar, EltDecls].
actOnOneOfElement(t, Elt, TmpTy, PrettyTypeName) ==
  IF Elt.Name \in t.SeenSoFar THEN
    LET I == FirstNamed(t.Context, t.EltDecls, Elt.Name) IN
    [t EXCEPT !.diags = Append(@, Diag("duplicate_oneof_element", Elt.NameLoc))
                        \o (IF I = 0 THEN <<>>
                            ELSE <<Diag("previous_definition", t.Context[t.EltDecls[I]].Loc)>>)]
  ELSE
    LET EltTy == IF Elt.EltType # NullTy /\ PrettyTypeName # 0
                   THEN FunctionType(Elt.EltType, TmpTy) ELSE TmpTy
    IN [t EXCEPT !.SeenSoFar = @ \cup {Elt.Name},
                 !.Context = Append(@, OneOfElementDecl(Elt.NameLoc, Elt.Name, EltTy,
                                                        Elt.EltType, CurDeclContext)),
                 !.EltDecls = Append(@, Len(t.Context) + 1)]

RECURSIVE actOnOneOfElements(_, _, _, _)
actOnOneOfElements(t, Elts, TmpTy, PrettyTypeName) ==
  IF Elts = <<>> THEN t
  ELSE actOnOneOfElements(actOnOneOfElement(t, Head(Elts), TmpTy, PrettyTypeName),
                          Tail(Elts), TmpTy, PrettyTypeName)

\* actOnOneOfType without the loop that gives the elements of a oneof type
\* that has no PrettyTypeName their types.
actOnOneOfType_NoElementTypes(OneOfLoc, Attrs, Elts, MemberDecls, PrettyTypeName, s) ==
  LET d0 == IF Attrs # EmptyAttributes
              THEN Append(s.diags, Diag("oneof_attributes", <<Attrs.LSquareLoc>>))
              ELSE s.diags
      TmpTy == IF PrettyTypeName # 0 THEN AliasType(PrettyTypeName) ELSE EmptyTupleType
      t == actOnOneOfElements([Context |-> s.Context, diags |-> d0,
                               SeenSoFar |-> {}, EltDecls |-> <<>>],
                              Elts, TmpTy, PrettyTypeName)
      Result == Len(t.Context) + 1
      C1 == Append(t.Context, OneOfType(OneOfLoc, t.EltDecls, CurDeclContext))
      Elems == { t.EltDecls[i] : i \in 1..Len(t.EltDecls) }
      Membs == { MemberDecls[i] : i \in 1..Len(MemberDecls) }
      C2 == [n \in 1..Len(C1) |->
               IF n \in Elems \cup Membs THEN [C1[n] EXCEPT !.DC = Result] ELSE C1[n]]
      C3 == IF PrettyTypeName # 0
              THEN [C2 EXCEPT ![PrettyTypeName].Underlying = OneOfTypeRef(Result)]
              ELSE C2
  IN [Context |-> C3, diags |-> t.diags, Result |-> Result]

\* Parser::actOnOneOfType on s = [Context, diags]: the new arena and
\* diagnostics and the address of the OneOfType.  PrettyTypeName is the
\* address of a TypeAliasDecl, or 0.
actOnOneOfType(OneOfLoc, Attrs, Elts, MemberDecls, PrettyTypeName, s) ==
  LET d0 == IF Attrs # EmptyAttributes
              THEN Append(s.diags, Diag("oneof_attributes", <<Attrs.LSquareLoc>>))
              ELSE s.diags
      TmpTy == IF PrettyTypeName # 0 THEN AliasType(PrettyTypeName) ELSE EmptyTupleType
      t == actOnOneOfElements([Context |-> s.Context, diags |-> d0,
                               SeenSoFar |-> {}, EltDecls |-> <<>>],
                              Elts, TmpTy, PrettyTypeName)
      Result == Len(t.Context) + 1
      C1 == Append(t.Context, OneOfType(OneOfLoc, t.EltDecls, CurDeclContext))
      Elems == { t.EltDecls[i] : i \in 1..Len(t.EltDecls) }
      Membs == { MemberDecls[i] : i \in 1..Len(MemberDecls) }
      C2 == [n \in 1..Len(C1) |->
               IF n \in Elems \cup Membs THEN [C1[n] EXCEPT !.DC = Result] ELSE C1[n]]
      C3 == IF PrettyTypeName # 0
              THEN [C2 EXCEPT ![PrettyTypeName].Underlying = OneOfTypeRef(Result)]
              ELSE [n \in 1..Len(C2) |->
                      IF n \in Elems
                        THEN [C2[n] EXCEPT !.Ty = IF C2[n].ArgTy # NullTy
                                                    THEN FunctionType(C2[n].ArgTy, OneOfTypeRef(Result))
                                                    ELSE OneOfTypeRef(Result)]
                        ELSE C2[n]]
  IN [Context |-> C3, diags |-> t.diags, Result |-> Result]

\* One round of the loop over the member declarations of a oneof or struct
\* body on s = [Context, ScopeInfo, diags, MemberDecls]: parseDecl either
\* fails, and the parser skips to the next declaration or `}`, or appends a
\* declaration (here a function without body, which is then in scope).
\* Rounds counts the rounds that appended one.
MemberOutcomes(s, Loc) ==
  { s,
    [s EXCEPT !.Context = Append(@, FuncDecl(Loc, "m", FunctionType(EmptyTupleType, EmptyTupleType),
                                             0, EmptyAttributes, CurDeclContext)),
              !.ScopeInfo = addToScope(@, Len(s.Context) + 1),
              !.MemberDecls = Append(@, Len(s.Context) + 1)] }

CaseNames == {"a", "b"}
EltTypes == {NullTy, IntType}
\* The oneof elements of the input: a name and the type written after it.
OneOfEntries == { e \in CaseNames \X EltTypes : e[1] = "b" => e[2] = NullTy }

NoOneOf == [active |-> FALSE, OneOfLoc |-> <<>>, Attributes |-> EmptyAttributes,
            Name |-> "", TAD |-> 0, ElementInfos |-> <<>>, MemberDecls |-> <<>>,
            Rounds |-> 0, Result |-> 0]

\* What parseDeclOneOf returns when parseDeclOneOfBody has returned b; a
\* caller that passed no TypeName gets b itself.
OneOfBodyReturn(b) == IF oo.TAD = 0 THEN RetBool(b) ELSE RetPtr(IF b THEN 0 ELSE oo.TAD)

\* parseDeclOneOf up to the `{` of the body.
parseDeclOneOf_Name ==
  /\ pc = "oneof_start"
  /\ \E attrs \in DeclAttributes :
       \/ \* parseIdentifier fails
          /\ oo' = [oo EXCEPT !.active = TRUE, !.Attributes = attrs]
          /\ Return(RetPtr(0))
          /\ UNCHANGED <<Context, ScopeInfo, diags>>
       \/ \E lbrace \in BOOLEAN :
            LET r == addTypeAliasToScope(Append(oo.OneOfLoc, 0), "E", NullTy,
                                         [Context |-> Context, ScopeInfo |-> ScopeInfo])
            IN /\ Context' = r.Context
               /\ ScopeInfo' = r.ScopeInfo
               /\ oo' = [oo EXCEPT !.active = TRUE, !.Attributes = attrs,
                                   !.Name = "E", !.TAD = r.TAD]
               /\ IF lbrace
                    THEN /\ pc' = "oneof_elts"
                         /\ UNCHANGED <<diags, callers, ret>>
                    ELSE /\ diags' = Append(diags, Diag("expected_lbrace_oneof_type",
                                                        Append(oo.OneOfLoc, 1)))
                         /\ Return(RetPtr(0))
  /\ UNCHANGED <<CurDeclContext, Decls>>
  /\ UNCHANGED nonOneOf
  /\ UNCHANGED attrVars
  /\ UNCHANGED UnresolvedTypeList

\* parseDeclOneOfBody called without a TypeName, for a oneof type that is
\* written where a type is expected: the call up to the first element.
parseDeclOneOfBody_NoTypeName ==
  /\ pc = "idle"
  /\ \E attrs \in DeclAttributes, lbrace \in BOOLEAN :
       /\ oo' = [NoOneOf EXCEPT !.active = TRUE, !.OneOfLoc = TopLoc, !.Attributes = attrs]
       /\ IF lbrace
            THEN /\ pc' = "oneof_elts"
                 /\ UNCHANGED <<diags, ret>>
            ELSE /\ diags' = Append(diags, Diag("expected_lbrace_oneof_type",
                                                Append(TopLoc, 1)))
                 /\ pc' = "done"
                 /\ ret' = RetBool(TRUE)
  /\ UNCHANGED <<Context, CurDeclContext, ScopeInfo, Decls, callers>>
  /\ UNCHANGED nonOneOf
  /\ UNCHANGED attrVars
  /\ UNCHANGED UnresolvedTypeList

\* parseDeclOneOfBody: one round of the loop over the elements.
parseDeclOneOfBody_Element ==
  /\ pc = "oneof_elts"
  /\ \/ \* the current token is no identifier
        /\ pc' = "oneof_members"
        /\ UNCHANGED <<oo, diags, callers, ret>>
     \/ /\ Len(oo.ElementInfos) < MaxCases
        /\ \E Name \in CaseNames :
             LET NameLoc == Append(oo.OneOfLoc, Len(oo.ElementInfos) + 1) IN
             \/ \* `:` and a type that fails to parse
                /\ diags' = Append(diags, Diag("expected_type_oneof_element", NameLoc))
                /\ Return(OneOfBodyReturn(TRUE))
                /\ UNCHANGED oo
             \/ \E Ty \in EltTypes, comma \in BOOLEAN :
                  /\ <<Name, Ty>> \in OneOfEntries
                  /\ oo' = [oo EXCEPT !.ElementInfos =
                                         Append(@, OneOfElementInfo(Name, NameLoc, Ty))]
                  /\ pc' = IF comma THEN "oneof_elts" ELSE "oneof_members"
                  /\ UNCHANGED <<diags, callers, ret>>
  /\ UNCHANGED <<Context, CurDeclContext, ScopeInfo, Decls>>
  /\ UNCHANGED nonOneOf
  /\ UNCHANGED attrVars
  /\ UNCHANGED UnresolvedTypeList

\* parseDeclOneOfBody: one round of the loop over the member declarations.
parseDeclOneOfBody_Member ==
  /\ pc = "oneof_members"
  /\ oo.Rounds < MaxMembers
  /\ \E m \in MemberOutcomes([Context |-> Context, ScopeInfo |-> ScopeInfo, diags |-> diags,
                               MemberDecls |-> oo.MemberDecls],
                              <<2, oo.Rounds>>) :
       /\ Context' = m.Context
       /\ ScopeInfo' = m.ScopeInfo
       /\ oo' = [oo EXCEPT !.MemberDecls = m.MemberDecls,
                           !.Rounds = Len(m.MemberDecls)]
  /\ UNCHANGED <<pc, diags, CurDeclContext, Decls, callers, ret>>
  /\ UNCHANGED nonOneOf
  /\ UNCHANGED attrVars
  /\ UNCHANGED UnresolvedTypeList

\* parseDeclOneOfBody from the `}` on, and the return of parseDeclOneOf.
parseDeclOneOfBody_Finish ==
  /\ pc = "oneof_members"
  /\ \E rbrace \in BOOLEAN :
       LET d0 == IF rbrace THEN diags
                 ELSE diags \o <<Diag("expected_rbrace_oneof_type", oo.OneOfLoc),
                                 Diag("opening_brace", oo.OneOfLoc)>>
           r == actOnOneOfType(oo.OneOfLoc, oo.Attributes, oo.ElementInfos, oo.MemberDecls,
                               oo.TAD, [Context |-> Context, diags |-> d0])
       IN /\ Context' = r.Context
          /\ diags' = r.diags
          /\ oo' = [oo EXCEPT !.Result = r.Result]
  /\ Return(OneOfBodyReturn(FALSE))
  /\ UNCHANGED <<CurDeclContext, ScopeInfo, Decls>>
  /\ UNCHANGED nonOneOf
  /\ UNCHANGED attrVars
  /\ UNCHANGED UnresolvedTypeList

\* The field tuples parseTypeTupleBody can return.
StructBodies ==
  { EmptyTupleType,
    TupleType(<< <<"x", IntType>>, <<"y", IntType>> >>),
    TupleType(<< <<"x", IntType>>, <<"", IntType>> >>) }

NoStruct == [active |-> FALSE, StructLoc |-> <<>>, Attributes |-> EmptyAttributes,
             StructName |-> "", TAD |-> 0, BodyTy |-> NullTy, MemberDecls |-> <<>>,
             Rounds |-> 0]

\* parseDeclStruct up to the `{`.
parseDeclStruct_Name ==
  /\ pc = "struct_start"
  /\ \E attrs \in DeclAttributes :
       \/ \* parseIdentifier or parseToken fails
          /\ st' = [st EXCEPT !.active = TRUE, !.Attributes = attrs]
          /\ Return(RetBool(TRUE))
       \/ /\ st' = [st EXCEPT !.active = TRUE, !.Attributes = attrs, !.StructName = "S"]
          /\ pc' = "struct_body"
          /\ UNCHANGED <<callers, ret>>
  /\ UNCHANGED <<diags, Context, CurDeclContext, ScopeInfo, Decls>>
  /\ UNCHANGED nonStruct
  /\ UNCHANGED attrVars
  /\ UNCHANGED UnresolvedTypeList

\* parseDeclStruct: the type alias of the name and the fields.
parseDeclStruct_Body ==
  /\ pc = "struct_body"
  /\ LET r == addTypeAliasToScope(st.StructLoc, st.StructName, NullTy,
                                  [Context |-> Context, ScopeInfo |-> ScopeInfo])
     IN /\ Context' = r.Context
        /\ ScopeInfo' = r.ScopeInfo
        /\ \/ \* parseTypeTupleBody fails
              /\ st' = [st EXCEPT !.TAD = r.TAD]
              /\ Return(RetBool(TRUE))
              /\ UNCHANGED diags
           \/ \E BodyTy \in StructBodies :
                /\ st' = [st EXCEPT !.TAD = r.TAD, !.BodyTy = BodyTy]
                /\ diags' = diags \o
                     [i \in 1..Cardinality({ j \in 1..Len(BodyTy[2]) : BodyTy[2][j][1] = "" }) |->
                        Diag("struct_unnamed_member", Append(st.StructLoc, 1))]
                /\ pc' = "struct_members"
                /\ UNCHANGED <<callers, ret>>
  /\ UNCHANGED <<CurDeclContext, Decls>>
  /\ UNCHANGED nonStruct
  /\ UNCHANGED attrVars
  /\ UNCHANGED UnresolvedTypeList

\* parseDeclStruct: one round of the loop over the member declarations.
parseDeclStruct_Member ==
  /\ pc = "struct_members"
  /\ st.Rounds < MaxMembers
  /\ \E m \in MemberOutcomes([Context |-> Context, ScopeInfo |-> ScopeInfo, diags |-> diags,
                               MemberDecls |-> st.MemberDecls],
                              <<2, st.Rounds>>) :
       /\ Context' = m.Context
       /\ ScopeInfo' = m.ScopeInfo
       /\ st' = [st EXCEPT !.MemberDecls = m.MemberDecls,
                           !.Rounds = Len(m.MemberDecls)]
  /\ UNCHANGED <<pc, diags, CurDeclContext, Decls, callers, ret>>
  /\ UNCHANGED nonStruct
  /\ UNCHANGED attrVars
  /\ UNCHANGED UnresolvedTypeList

\* parseDeclStruct_Finish without the addToScope of the constructor.
parseDeclStruct_Finish_NotInScope ==
  /\ pc = "struct_members"
  /\ \/ /\ diags' = diags \o <<Diag("expected_rbrace_struct", st.StructLoc),
                                 Diag("opening_brace", st.StructLoc)>>
        /\ Return(RetBool(TRUE))
        /\ UNCHANGED <<Context, ScopeInfo, Decls>>
     \/ LET Elt == OneOfElementInfo(st.StructName, st.StructLoc, st.BodyTy)
            r == actOnOneOfType(st.StructLoc, st.Attributes, <<Elt>>, st.MemberDecls,
                                st.TAD, [Context |-> Context, diags |-> diags])
            Elt0 == r.Context[r.Result].Elements[1]
        IN /\ Context' = r.Context
           /\ diags' = r.diags
           /\ UNCHANGED ScopeInfo
           /\ Decls' = Decls \o <<st.TAD, Elt0>>
           /\ Return(RetBool(FALSE))
  /\ UNCHANGED <<CurDeclContext, st>>
  /\ UNCHANGED nonStruct
  /\ UNCHANGED attrVars
  /\ UNCHANGED UnresolvedTypeList

\* parseDeclStruct from the `}` on: the oneof with one element, whose
\* declaration is entered into the scope.
parseDeclStruct_Finish ==
  /\ pc = "struct_members"
  /\ \/ \* parseMatchingToken fails
        /\ diags' = diags \o <<Diag("expected_rbrace_struct", st.StructLoc),
                                 Diag("opening_brace", st.StructLoc)>>
        /\ Return(RetBool(TRUE))
        /\ UNCHANGED <<Context, ScopeInfo, Decls>>
     \/ LET Elt == OneOfElementInfo(st.StructName, st.StructLoc, st.BodyTy)
            r == actOnOneOfType(st.StructLoc, st.Attributes, <<Elt>>, st.MemberDecls,
                                st.TAD, [Context |-> Context, diags |-> diags])
            Elt0 == r.Context[r.Result].Elements[1]
        IN /\ Context' = r.Context
           /\ diags' = r.diags
           /\ ScopeInfo' = addToScope(ScopeInfo, Elt0)
           /\ Decls' = Decls \o <<st.TAD, Elt0>>
           /\ Return(RetBool(FALSE))
  /\ UNCHANGED <<CurDeclContext, st>>
  /\ UNCHANGED nonStruct
  /\ UNCHANGED attrVars
  /\ UNCHANGED UnresolvedTypeList

(***************************************************************************)
(* protocol declarations.  The members of the body are parsed by           *)
(* parseDeclFunc and by parseDeclVarSimple, which calls parseDeclVar with  *)
(* a result list of its own.                                               *)
(***************************************************************************)
ProtocolType(Loc, Elements, DC) ==
  [kind |-> "ProtocolType", Loc |-> Loc, Elements |-> Elements, DC |-> DC]

\* Members counts the members parsed so far; CurLoc and CallerDecls belong
\* to the call of parseDeclVarSimple: the location of its first token and
\* the result list of the driver, which is out of reach during the call;
\* VarParsed records that its call of parseDeclVar returned false.
NoProto == [active |-> FALSE, ProtocolLoc |-> <<>>, Attributes |-> EmptyAttributes,
            Name |-> "", TAD |-> 0, ThisType |-> NullTy, Elements |-> <<>>,
            Members |-> 0, CurLoc |-> <<>>, CallerDecls |-> <<>>,
            VarParsed |-> FALSE]

\* parseDeclProtocol, and parseProtocolBody up to the first member.
parseDeclProtocol_Name ==
  /\ pc = "proto_start"
  /\ \E attrs \in DeclAttributes :
       \/ \* parseIdentifier fails
          /\ pr' = [pr EXCEPT !.active = TRUE, !.Attributes = attrs]
          /\ Return(RetPtr(0))
          /\ UNCHANGED <<Context, ScopeInfo, diags>>
       \/ \E lbrace \in BOOLEAN :
            LET r == addTypeAliasToScope(Append(pr.ProtocolLoc, 0), "P", NullTy,
                                         [Context |-> Context, ScopeInfo |-> ScopeInfo])
            IN /\ Context' = r.Context
               /\ ScopeInfo' = r.ScopeInfo
               /\ pr' = [pr EXCEPT !.active = TRUE, !.Attributes = attrs, !.Name = "P",
                                   !.TAD = r.TAD,
                                   !.ThisType = IF lbrace THEN AliasType(r.TAD) ELSE NullTy]
               /\ IF lbrace
                    THEN /\ pc' = "proto_member"
                         /\ UNCHANGED <<diags, callers, ret>>
                    ELSE /\ diags' = Append(diags, Diag("expected_lbrace_protocol_type",
                                                        Append(pr.ProtocolLoc, 0)))
                         /\ Return(RetPtr(0))
  /\ UNCHANGED <<CurDeclContext, Decls>>
  /\ UNCHANGED nonProto
  /\ UNCHANGED attrVars
  /\ UNCHANGED UnresolvedTypeList

\* parseProtocolBody: the switch on the current token.
parseProtocolBody_Member ==
  /\ pc = "proto_member"
  /\ LET Loc == Append(pr.ProtocolLoc, pr.Members + 1) IN
     \/ \* default
        /\ diags' = Append(diags, Diag("expected_protocol_member", Loc))
        /\ Return(RetPtr(0))
        /\ UNCHANGED <<Decls, vr, fn, pr>>
     \/ \* tok::r_brace
        /\ pc' = "proto_finish"
        /\ UNCHANGED <<diags, Decls, callers, ret, vr, fn, pr>>
     \/ \* tok::kw_func
        /\ pr.Members < MaxMembers
        /\ fn' = [NoFunc EXCEPT !.FuncLoc = Loc, !.ReceiverTy = pr.ThisType]
        /\ pr' = [pr EXCEPT !.Members = @ + 1]
        /\ callers' = <<"proto_func_ret">> \o callers
        /\ pc' = "func_start"
        /\ UNCHANGED <<diags, Decls, ret, vr>>
     \/ \* tok::kw_var
        /\ pr.Members < MaxMembers
        /\ vr' = [NoVar EXCEPT !.VarLoc = Loc]
        /\ pr' = [pr EXCEPT !.Members = @ + 1, !.CurLoc = Loc, !.CallerDecls = Decls]
        /\ Decls' = <<>>
        /\ callers' = <<"varsimple_ret", "proto_var_ret">> \o callers
        /\ pc' = "var_start"
        /\ UNCHANGED <<diags, ret, fn>>
  /\ UNCHANGED <<Context, CurDeclContext, ScopeInfo, st, oo, pd, ex>>
  /\ UNCHANGED attrVars
  /\ UNCHANGED UnresolvedTypeList

\* parseDeclVarSimple once parseDeclVar has returned.
parseDeclVarSimple_Return ==
  /\ pc = "varsimple_ret"
  /\ IF ret = RetBool(TRUE)
       THEN /\ Return(RetPtr(0))
            /\ UNCHANGED diags
       ELSE IF Len(Decls) = 1 /\ Context[Decls[1]].kind = "Var"
         THEN /\ Return(RetPtr(Decls[1]))
              /\ UNCHANGED diags
         ELSE /\ diags' = Append(diags, Diag("non_simple_var", pr.CurLoc))
              /\ Return(RetPtr(0))
  /\ Decls' = pr.CallerDecls
  /\ pr' = [pr EXCEPT !.VarParsed = (ret = RetBool(FALSE))]
  /\ UNCHANGED <<Context, CurDeclContext, ScopeInfo, vr, fn, st, oo, pd, ex>>
  /\ UNCHANGED attrVars
  /\ UNCHANGED UnresolvedTypeList

\* parseProtocolBody once parseDeclFunc has returned.
parseProtocolBody_FuncReturn ==
  /\ pc = "proto_func_ret"
  /\ IF ret = RetPtr(0)
       THEN /\ Return(RetPtr(0))
            /\ UNCHANGED pr
       ELSE /\ pr' = [pr EXCEPT !.Elements = Append(@, ret[2])]
            /\ pc' = "proto_member"
            /\ UNCHANGED <<callers, ret>>
  /\ fn' = NoFunc
  /\ UNCHANGED <<diags, Context, CurDeclContext, ScopeInfo, Decls, vr, st, oo, pd, ex>>
  /\ UNCHANGED attrVars
  /\ UNCHANGED UnresolvedTypeList

\* parseProtocolBody once parseDeclVarSimple has returned.
parseProtocolBody_VarReturn ==
  /\ pc = "proto_var_ret"
  /\ IF ret = RetPtr(0)
       THEN /\ Return(RetPtr(0))
            /\ UNCHANGED pr
       ELSE /\ pr' = [pr EXCEPT !.Elements = Append(@, ret[2])]
            /\ pc' = "proto_member"
            /\ UNCHANGED <<callers, ret>>
  /\ vr' = NoVar
  /\ UNCHANGED <<diags, Context, CurDeclContext, ScopeInfo, Decls, fn, st, oo, pd, ex>>
  /\ UNCHANGED attrVars
  /\ UNCHANGED UnresolvedTypeList

\* parseProtocolBody_Finish without the loop that sets the declaration
\* context of the members.
parseProtocolBody_Finish_NoSetDeclContext ==
  /\ pc = "proto_finish"
  /\ LET NewProto == Len(Context) + 1
         C1 == Append(Context, ProtocolType(pr.ProtocolLoc, pr.Elements, CurDeclContext))
     IN /\ diags' = IF pr.Attributes # EmptyAttributes
                      THEN Append(diags, Diag("protocol_attributes", <<pr.Attributes.LSquareLoc>>))
                      ELSE diags
        /\ Context' = [C1 EXCEPT ![pr.TAD].Underlying = ProtocolTypeRef(NewProto)]
  /\ Return(RetPtr(pr.TAD))
  /\ UNCHANGED <<CurDeclContext, ScopeInfo, Decls, pr>>
  /\ UNCHANGED nonProto
  /\ UNCHANGED attrVars
  /\ UNCHANGED UnresolvedTypeList

\* parseProtocolBody from the `}` on, and the return of parseDeclProtocol.
parseProtocolBody_Finish ==
  /\ pc = "proto_finish"
  /\ LET NewProto == Len(Context) + 1
         C1 == Append(Context, ProtocolType(pr.ProtocolLoc, pr.Elements, CurDeclContext))
         Elems == { pr.Elements[i] : i \in 1..Len(pr.Elements) }
         C2 == [n \in 1..Len(C1) |->
                  IF n \in Elems THEN [C1[n] EXCEPT !.DC = NewProto] ELSE C1[n]]
     IN /\ diags' = IF pr.Attributes # EmptyAttributes
                      THEN Append(diags, Diag("protocol_attributes", <<pr.Attributes.LSquareLoc>>))
                      ELSE diags
        /\ Context' = [C2 EXCEPT ![pr.TAD].Underlying = ProtocolTypeRef(NewProto)]
  /\ Return(RetPtr(pr.TAD))
  /\ UNCHANGED <<CurDeclContext, ScopeInfo, Decls, pr>>
  /\ UNCHANGED nonProto
  /\ UNCHANGED attrVars
  /\ UNCHANGED UnresolvedTypeList

(***************************************************************************)
(* The declaration parsers are started at the file level (one scope) or    *)
(* inside a function body (two scopes, the function expression as the      *)
(* context), after an earlier declaration that is in scope, with an empty  *)
(* or a non-empty result list.                                             *)
(***************************************************************************)
EarlierDecl == VarDecl(<<0>>, <<0>>, <<>>, IntType, FALSE, EmptyAttributes, 1)
InitialContext ==
  <<TranslationUnit, FuncExpr(FunctionType(EmptyTupleType, EmptyTupleType), 1), EarlierDecl>>

(***************************************************************************)
(* import, typealias and extension declarations.                           *)
(***************************************************************************)
ImportDecl(Loc, DC) == [kind |-> "Import", Loc |-> Loc, DC |-> DC]
ExtensionDecl(Loc, Ty, Members, DC) ==
  [kind |-> "Extension", Loc |-> Loc, Ty |-> Ty, Members |-> Members, DC |-> DC]

parseDeclImport ==
  /\ pc = "import_start"
  /\ \E attrs \in DeclAttributes :
       \/ \* parseIdentifier fails
          /\ Return(RetPtr(0))
          /\ UNCHANGED <<diags, Context>>
       \/ /\ diags' = IF attrs # EmptyAttributes
                        THEN Append(diags, Diag("import_attributes", <<attrs.LSquareLoc>>))
                        ELSE diags
          /\ Context' = Append(Context, ImportDecl(TopLoc, CurDeclContext))
          /\ Return(RetPtr(Len(Context) + 1))
  /\ UNCHANGED <<CurDeclContext, ScopeInfo, Decls, vr, fn, st, oo, pr, pd, ex,
                 UnresolvedTypeList>>
  /\ UNCHANGED attrVars

parseDeclTypeAlias ==
  /\ pc = "typealias_start"
  /\ \/ \* parseIdentifier, parseToken or parseType fails
        /\ Return(RetPtr(0))
        /\ UNCHANGED <<Context, ScopeInfo>>
     \/ LET r == addTypeAliasToScope(TopLoc, "A", IntType,
                                     [Context |-> Context, ScopeInfo |-> ScopeInfo])
        IN /\ Context' = r.Context
           /\ ScopeInfo' = r.ScopeInfo
           /\ Return(RetPtr(r.TAD))
  /\ UNCHANGED <<diags, CurDeclContext, Decls, vr, fn, st, oo, pr, pd, ex,
                 UnresolvedTypeList>>
  /\ UNCHANGED attrVars

NoExtension == [active |-> FALSE, ExtensionLoc |-> <<>>, Ty |-> NullTy,
                MemberDecls |-> <<>>, Rounds |-> 0]

\* parseDeclExtension up to the `{`.
parseDeclExtension_Type ==
  /\ pc = "extension_start"
  /\ \/ \* parseTypeIdentifier or parseToken fails
        /\ ex' = [ex EXCEPT !.active = TRUE]
        /\ Return(RetPtr(0))
     \/ /\ ex' = [ex EXCEPT !.active = TRUE, !.Ty = IntType]
        /\ pc' = "extension_members"
        /\ UNCHANGED <<callers, ret>>
  /\ UNCHANGED <<diags, Context, CurDeclContext, ScopeInfo, Decls, vr, fn, st, oo, pr, pd,
                 UnresolvedTypeList>>
  /\ UNCHANGED attrVars

\* parseDeclExtension: one round of the loop over the member declarations.
parseDeclExtension_Member ==
  /\ pc = "extension_members"
  /\ ex.Rounds < MaxMembers
  /\ \E m \in MemberOutcomes([Context |-> Context, ScopeInfo |-> ScopeInfo, diags |-> diags,
                              MemberDecls |-> ex.MemberDecls],
                             <<2, ex.Rounds>>) :
       /\ Context' = m.Context
       /\ ScopeInfo' = m.ScopeInfo
       /\ ex' = [ex EXCEPT !.MemberDecls = m.MemberDecls,
                           !.Rounds = Len(m.MemberDecls)]
  /\ UNCHANGED <<pc, diags, CurDeclContext, Decls, callers, ret, vr, fn, st, oo, pr, pd,
                 UnresolvedTypeList>>
  /\ UNCHANGED attrVars

\* parseDeclExtension from the `}` on; a missing `}` is reported only.
parseDeclExtension_Finish ==
  /\ pc = "extension_members"
  /\ \E rbrace \in BOOLEAN :
       diags' = IF rbrace THEN diags
                ELSE diags \o <<Diag("expected_rbrace_extension", ex.ExtensionLoc),
                                Diag("opening_brace", ex.ExtensionLoc)>>
  /\ Context' = Append(Context, ExtensionDecl(ex.ExtensionLoc, ex.Ty, ex.MemberDecls,
                                              CurDeclContext))
  /\ Return(RetPtr(Len(Context) + 1))
  /\ UNCHANGED <<CurDeclContext, ScopeInfo, Decls, vr, fn, st, oo, pr, pd, ex,
                 UnresolvedTypeList>>
  /\ UNCHANGED attrVars

(***************************************************************************)
(* parseDecl.  The switch on the leading token starts the parser of the    *)
(* declaration; when it has returned, parseDecl pushes the pointer it      *)
(* returned, drops a null pointer and validates the new entries.           *)
(***************************************************************************)
\* The leading tokens; "other" is a token that starts no declaration.
DeclKinds == {"import", "extension", "var", "typealias", "oneof", "struct", "protocol",
              "func", "other"}
\* The parsers that append to Entries themselves and return HadParseError.
ListKinds == {"var", "struct"}

StartPc(Kind) ==
  CASE Kind = "import" -> "import_start"
    [] Kind = "extension" -> "extension_start"
    [] Kind = "var" -> "var_start"
    [] Kind = "typealias" -> "typealias_start"
    [] Kind = "oneof" -> "oneof_start"
    [] Kind = "struct" -> "struct_start"
    [] Kind = "protocol" -> "proto_start"
    [] Kind = "func" -> "func_start"
    [] OTHER -> "done"

\* The flags of parseDecl, as the set of the bits that are set: PD_Default,
\* the flags of the members of a oneof or struct body, and two more.
PD_Flags ==
  { {}, {"PD_DisallowVar", "PD_DisallowOperators"}, {"PD_AllowImport"},
    {"PD_DisallowOperators"} }

\* Entry holds Entries as it was on entry, Produced what the parser of the
\* declaration made of it; BackOnEmpty records that Entries.back() was
\* evaluated on an empty list, Corrupt that pop_back() was.
NoDecl == [active |-> FALSE, Kind |-> "", Flags |-> {}, EntryStart |-> 0,
           Entry |-> <<>>, Produced |-> <<>>, HadParseError |-> FALSE,
           BackOnEmpty |-> FALSE, Corrupt |-> FALSE]

\* isa<NamedDecl>, and NamedDecl::isOperator.
IsNamedDecl(D) == D.kind \in {"Var", "Func", "TypeAlias", "ElementRef", "OneOfElement"}
isOperator(D) == D.kind \in {"Var", "ElementRef"} /\ D.Name = OperName.Id

Init ==
  /\ pc = "idle"
  /\ diags = <<>>
  /\ toks = <<>> /\ pos = 0 /\ Attributes = EmptyAttributes
  /\ HadError = FALSE /\ AttrLoc = 0
  /\ Context = InitialContext
  /\ \E nested \in BOOLEAN :
       /\ CurDeclContext = IF nested THEN 2 ELSE 1
       /\ ScopeInfo = IF nested THEN << <<3>>, <<>> >> ELSE << <<3>> >>
  /\ Decls = <<>>
  /\ callers = <<>>
  /\ ret = <<"none">>
  /\ vr = NoVar /\ fn = NoFunc /\ st = NoStruct /\ oo = NoOneOf /\ pr = NoProto
  /\ pd = NoDecl /\ ex = NoExtension /\ UnresolvedTypeList = <<>>

\* parseDecl up to the call of the parser that the leading token selects.
\* Flags is drawn where parseDecl reads it, in the validation.
Start ==
  /\ pc = "idle"
  /\ \E Kind \in DeclKinds, Entries \in { <<>>, <<3>> } :
       /\ Decls' = Entries
       /\ pd' = [NoDecl EXCEPT !.active = TRUE, !.Kind = Kind,
                               !.EntryStart = Len(Entries), !.Entry = Entries,
                               !.HadParseError = (Kind = "other")]
       /\ pc' = StartPc(Kind)
       /\ diags' = IF Kind = "other" THEN Append(diags, Diag("expected_decl", TopLoc))
                   ELSE diags
  /\ vr' = [NoVar EXCEPT !.VarLoc = TopLoc]
  /\ fn' = [NoFunc EXCEPT !.FuncLoc = TopLoc]
  /\ st' = [NoStruct EXCEPT !.StructLoc = TopLoc]
  /\ oo' = [NoOneOf EXCEPT !.OneOfLoc = TopLoc]
  /\ pr' = [NoProto EXCEPT !.ProtocolLoc = TopLoc]
  /\ ex' = [NoExtension EXCEPT !.ExtensionLoc = TopLoc]
  /\ UNCHANGED <<Context, CurDeclContext, ScopeInfo, callers, ret, UnresolvedTypeList>>
  /\ UNCHANGED attrVars

\* The diagnostics of the validation of the declaration D.
ValidateEntry(D, Flags) ==
  (IF D.kind = "Import" /\ "PD_AllowImport" \notin Flags
     THEN <<Diag("import_inner_scope", D.Loc)>> ELSE <<>>)
  \o (IF D.kind = "Var" /\ "PD_DisallowVar" \in Flags
        THEN <<Diag("disallowed_var_decl", D.Loc)>>
      ELSE IF IsNamedDecl(D) /\ isOperator(D) /\ "PD_DisallowOperators" \in Flags
        THEN <<Diag("operator_in_decl", D.Loc)>>
      ELSE <<>>)

\* The loop over Entries[i..e), with i counted from 1.
RECURSIVE ValidateEntries(_, _, _, _)
ValidateEntries(C, Entries, i, Flags) ==
  IF i > Len(Entries) THEN <<>>
  ELSE ValidateEntry(C[Entries[i]], Flags) \o ValidateEntries(C, Entries, i + 1, Flags)

\* parseDecl_Finish with a validation that starts at the first entry of the
\* list instead of EntryStart.
parseDecl_Finish_ValidateAll ==
  /\ pc = "done" /\ pd.active
  /\ LET Pushed == IF pd.Kind \in ListKinds \cup {"other"} THEN Decls
                   ELSE Append(Decls, ret[2])
         H0 == pd.HadParseError \/ (pd.Kind \in ListKinds /\ ret[2])
     IN \E Flags \in PD_Flags :
          IF Pushed = <<>>
            THEN \E null \in BOOLEAN :
                   /\ pd' = [pd EXCEPT !.Flags = Flags, !.Produced = Pushed,
                                       !.HadParseError = H0 \/ null,
                                       !.BackOnEmpty = TRUE, !.Corrupt = null]
                   /\ pc' = IF null THEN "decl_corrupt" ELSE "decl_done"
                   /\ ret' = RetBool(H0 \/ null)
                   /\ UNCHANGED <<Decls, diags>>
            ELSE LET null == Pushed[Len(Pushed)] = 0
                     E1 == IF null THEN SubSeq(Pushed, 1, Len(Pushed) - 1) ELSE Pushed
                 IN /\ pd' = [pd EXCEPT !.Flags = Flags, !.Produced = Pushed,
                                        !.HadParseError = H0 \/ null]
                    /\ Decls' = E1
                    /\ diags' = diags \o ValidateEntries(Context, E1, 1, Flags)
                    /\ ret' = RetBool(H0 \/ null)
                    /\ pc' = "decl_done"
  /\ UNCHANGED <<Context, CurDeclContext, ScopeInfo, callers, vr, fn, st, oo, pr, ex,
                 UnresolvedTypeList>>
  /\ UNCHANGED attrVars

\* parseDecl once the parser of the declaration has returned.  On an empty
\* list Entries.back() reads what is not an entry: the value read is null or
\* is not, and a null makes pop_back() shrink the empty list.
parseDecl_Finish ==
  /\ pc = "done" /\ pd.active
  /\ LET Pushed == IF pd.Kind \in ListKinds \cup {"other"} THEN Decls
                   ELSE Append(Decls, ret[2])
         H0 == pd.HadParseError \/ (pd.Kind \in ListKinds /\ ret[2])
     IN \E Flags \in PD_Flags :
          IF Pushed = <<>>
            THEN \E null \in BOOLEAN :
                   /\ pd' = [pd EXCEPT !.Flags = Flags, !.Produced = Pushed,
                                       !.HadParseError = H0 \/ null,
                                       !.BackOnEmpty = TRUE, !.Corrupt = null]
                   /\ pc' = IF null THEN "decl_corrupt" ELSE "decl_done"
                   /\ ret' = RetBool(H0 \/ null)
                   /\ UNCHANGED <<Decls, diags>>
            ELSE LET null == Pushed[Len(Pushed)] = 0
                     E1 == IF null THEN SubSeq(Pushed, 1, Len(Pushed) - 1) ELSE Pushed
                 IN /\ pd' = [pd EXCEPT !.Flags = Flags, !.Produced = Pushed,
                                        !.HadParseError = H0 \/ null]
                    /\ Decls' = E1
                    /\ diags' = diags \o ValidateEntries(Context, E1, pd.EntryStart + 1, Flags)
                    /\ ret' = RetBool(H0 \/ null)
                    /\ pc' = "decl_done"
  /\ UNCHANGED <<Context, CurDeclContext, ScopeInfo, callers, vr, fn, st, oo, pr, ex,
                 UnresolvedTypeList>>
  /\ UNCHANGED attrVars

\* parseTranslationUnit from the end of the body of the file on: the type
\* names of ScopeInfo's list that have no underlying type go to the
\* translation unit.
parseTranslationUnit_Finish ==
  /\ pc = "decl_done"
  /\ CurDeclContext = 1 /\ Len(ScopeInfo) = 1
  /\ Context' = [Context EXCEPT ![1].UnresolvedTypesForParser =
                   SelectSeq(UnresolvedTypeList, LAMBDA d : Context[d].Underlying = NullTy)]
  /\ pd' = NoDecl
  /\ pc' = "tu_done"
  /\ UNCHANGED <<diags, CurDeclContext, ScopeInfo, Decls, callers, ret, vr, fn, st, oo, pr,
                 ex, UnresolvedTypeList>>
  /\ UNCHANGED attrVars

Next ==
  \/ Start
  \/ parseDeclVar_Name \/ parseDeclVar_ValueSpecifier \/ parseDeclVar_Act
  \/ parseDeclFunc_Name \/ parseDeclFunc_Type \/ parseDeclFunc_EnterBody
  \/ parseDeclFunc_Body \/ parseDeclFunc_LeaveBody \/ parseDeclFunc_Finish
  \/ parseDeclOneOf_Name \/ parseDeclOneOfBody_Element \/ parseDeclOneOfBody_Member
  \/ parseDeclOneOfBody_Finish \/ parseDeclOneOfBody_NoTypeName
  \/ parseDeclStruct_Name \/ parseDeclStruct_Body \/ parseDeclStruct_Member
  \/ parseDeclStruct_Finish
  \/ parseDeclProtocol_Name \/ parseProtocolBody_Member \/ parseDeclVarSimple_Return
  \/ parseProtocolBody_FuncReturn \/ parseProtocolBody_VarReturn
  \/ parseProtocolBody_Finish
  \/ parseDeclImport \/ parseDeclTypeAlias
  \/ parseDeclExtension_Type \/ parseDeclExtension_Member \/ parseDeclExtension_Finish
  \/ parseDecl_Finish \/ parseTranslationUnit_Finish

Spec == Init /\ [][Next]_vars

(***************************************************************************)
(* Properties of var declarations.                                         *)
(***************************************************************************)
\* The declarations a handler appended to the result list, and those it
\* entered into the innermost scope.
NewDecls == SelectSeq(Decls, LAMBDA d : d > Len(InitialContext))
NewInScope ==
  SelectSeq(ScopeInfo[Len(ScopeInfo)],
            LAMBDA d : d > Len(InitialContext) /\ Context[d].kind # "TypeAlias")

\* The names of a pattern, from left to right.
RECURSIVE Leaves(_)
RECURSIVE LeavesOfAll(_)
Leaves(Name) == IF Name.isSimple THEN <<Name>> ELSE LeavesOfAll(Name.Elements)
LeavesOfAll(Elements) ==
  IF Elements = <<>> THEN <<>> ELSE Leaves(Head(Elements)) \o LeavesOfAll(Tail(Elements))

VarDone == pc = "done" /\ vr.active /\ ret = RetBool(FALSE)

\* C3: after a var declaration with a parenthesized pattern, the result list
\* has gained the VarDecl, which is not in scope, followed by one
\* ElementRefDecl for every name of the pattern whose path is valid for the
\* type of the variable, from left to right, each of them in scope, with
\* the path from the root of the pattern to the name as access path; every
\* other name has a diagnostic and no declaration.
C3_ElementRefsOfPattern ==
  (VarDone /\ ~vr.VarName.isSimple) =>
    LET New   == NewDecls
        VD    == New[1]
        all   == Leaves(vr.VarName)
        valid == SelectSeq(all, LAMBDA n : getTypeForPath(Context[VD].Ty, n.Loc) # NullTy)
        bad   == SelectSeq(all, LAMBDA n : getTypeForPath(Context[VD].Ty, n.Loc) = NullTy)
    IN /\ Len(New) = 1 + Len(valid)
       /\ Context[VD].kind = "Var"
       /\ Context[VD].NestedName = vr.VarName
       /\ VD \notin InScope(ScopeInfo)
       /\ NewInScope = Tail(New)
       /\ \A i \in 1..Len(valid) :
            LET d == Context[New[i + 1]] IN
            /\ d.kind = "ElementRef"
            /\ d.VD = VD
            /\ d.Name = valid[i].Id
            /\ d.AccessPath = valid[i].Loc
            /\ d.Ty = getTypeForPath(Context[VD].Ty, valid[i].Loc)
       /\ diags = [i \in 1..Len(bad) |->
                     Diag("invalid_index_in_var_name_path", bad[i].Loc)]

\* A pattern with nested names: one name without declaration, and a name
\* to the right of it, in another sub-pattern, with one.
C3_Witness ==
  /\ VarDone /\ ~vr.VarName.isSimple
  /\ diags # <<>>
  /\ \E i \in 1..Len(NewDecls) :
       /\ Context[NewDecls[i]].kind = "ElementRef"
       /\ Len(Context[NewDecls[i]].AccessPath) = 2
       /\ \E j \in 1..Len(diags) :
            /\ Len(diags[j].loc) = 2
            /\ diags[j].loc[1] < Context[NewDecls[i]].AccessPath[1]

\* The declaration d is the VarDecl of the var declaration being parsed or
\* the declaration of one of the names of its pattern.
BoundByVar(d) ==
  \/ Context[d].kind = "Var" /\ Context[d].Loc = vr.VarLoc
  \/ Context[d].kind = "ElementRef" /\ Context[Context[d].VD].Loc = vr.VarLoc

\* C4: while the value specifier of a var declaration is not parsed yet, and
\* after the declaration failed to parse, no declaration bound by it is in
\* any scope.
C4_NoScopeInsertionBeforeValue ==
  (vr.active /\ (pc = "var_valspec" \/ ret = RetBool(TRUE))) =>
    \A d \in InScope(ScopeInfo) : ~BoundByVar(d)

\* The value specifier has been parsed (and has entered a forward type name
\* into the scope), and the names of the pattern are in scope afterwards.
C4_Witness ==
  /\ VarDone
  /\ \E d \in InScope(ScopeInfo) : Context[d].kind = "TypeAlias"
  /\ \E d \in InScope(ScopeInfo) : BoundByVar(d) /\ Context[d].kind = "ElementRef"

(***************************************************************************)
(* Properties of func declarations.                                        *)
(***************************************************************************)
FuncPcs == {"func_start", "func_type", "func_scope", "func_body", "func_leave",
            "func_finish"}

\* parseDeclFunc has returned, and nothing has returned after it.
FuncReturned == fn.active /\ pc \notin FuncPcs /\ ret[1] = "ptr"
\* It has returned the FuncDecl p.
FuncReturnedDecl(p) == FuncReturned /\ ret = RetPtr(p) /\ p # 0

\* The function type of a declaration written with the type W.
WrittenFunctionType(W) ==
  IF W[1] = "fn" THEN W ELSE FunctionType(W, EmptyTupleType)
WithReceiver(R, F) == FunctionType(TupleType(<< <<"this", R>> >>), F)

\* C5: the type of the FuncDecl returned is the written type made a function
\* type (W, or W -> () when W is no function type), wrapped once as
\* (this: R) -> F when there is a receiver type R, be it the argument of
\* parseDeclFunc or the type named before `::`, and not wrapped otherwise.
C5_FuncDeclType ==
  \A p \in 1..Len(Context) :
    FuncReturnedDecl(p) =>
      LET F == WrittenFunctionType(fn.Written) IN
      IF fn.ArgReceiverTy # NullTy
        THEN Context[p].Ty = WithReceiver(fn.ArgReceiverTy, F)
      ELSE IF fn.Method
        THEN \E t \in InScope(ScopeInfo) :
               /\ Context[t].kind = "TypeAlias"
               /\ Context[t].Name = fn.TypeName
               /\ Context[p].Ty = WithReceiver(AliasType(t), F)
      ELSE Context[p].Ty = F

\* `func T::f()` has been parsed: (this: T) -> (() -> ()).
C5_Witness ==
  \E p \in 1..Len(Context) :
    /\ FuncReturnedDecl(p)
    /\ fn.Method
    /\ fn.Written = EmptyTupleType
    /\ Context[p].Ty[1] = "fn"
    /\ Context[p].Ty[2][1] = "tuple"
    /\ Context[p].Ty[3] = FunctionType(EmptyTupleType, EmptyTupleType)

\* C6: when parseDeclFunc has returned, the scope stack is as deep as on
\* entry and the declaration context is the one on entry; the FuncDecl is
\* in a scope only when the stack is back at that depth, and then in the
\* scope that was innermost on entry.
C6_ScopeAndContextRestored ==
  /\ FuncReturned =>
       /\ Len(ScopeInfo) = fn.EntryDepth
       /\ CurDeclContext = fn.EntryContext
       /\ \A p \in 1..Len(Context) :
            FuncReturnedDecl(p) =>
              \E j \in 1..Len(ScopeInfo[fn.EntryDepth]) : ScopeInfo[fn.EntryDepth][j] = p
  /\ fn.active =>
       \A d \in InScope(ScopeInfo) :
         (Context[d].kind = "Func" /\ Context[d].Loc = fn.FuncLoc) =>
           Len(ScopeInfo) = fn.EntryDepth

\* A function whose body failed to parse, after declaring a name, has
\* returned.
C6_Witness ==
  /\ FuncReturned /\ fn.BodyFailed
  /\ \E p \in 1..Len(Context) :
       Context[p].kind = "Var" /\ Context[p].Loc = Append(fn.FuncLoc, 0)

OneOfReturned == oo.active /\ pc = "done" /\ ret = RetPtr(oo.TAD) /\ oo.TAD # 0

\* The places of Elts that hold the first element of their name, and the
\* other places, each in ascending order.
IsFirst(Elts, i) == \A j \in 1..(i - 1) : Elts[j].Name # Elts[i].Name
FirstOf(Elts, i) == CHOOSE j \in 1..i : Elts[j].Name = Elts[i].Name /\ IsFirst(Elts, j)
RECURSIVE Places(_, _, _)
Places(Elts, i, first) ==
  IF i > Len(Elts) THEN <<>>
  ELSE (IF IsFirst(Elts, i) = first THEN <<i>> ELSE <<>>) \o Places(Elts, i + 1, first)

DuplicateDiags == SelectSeq(diags, LAMBDA d : d.kind \in {"duplicate_oneof_element",
                                                         "previous_definition"})

\* C1: the elements of the oneof type are the elements written, without
\* those whose name an element before them has: of several elements with
\* one name the first is in the type, with its own argument type; every
\* later one gets a diagnostic at its name, followed by one note at the
\* first, and the type is built all the same.
C1_FirstOfDuplicatesWins ==
  OneOfReturned =>
    LET Elts  == oo.ElementInfos
        first == Places(Elts, 1, TRUE)
        dups  == Places(Elts, 1, FALSE)
        Ty    == Context[oo.TAD].Underlying
    IN /\ Ty[1] = "oneof"
       /\ Context[Ty[2]].kind = "OneOfType"
       /\ Len(Context[Ty[2]].Elements) = Len(first)
       /\ \A k \in 1..Len(first) :
            LET D == Context[Context[Ty[2]].Elements[k]] IN
            /\ D.kind = "OneOfElement"
            /\ D.Name = Elts[first[k]].Name
            /\ D.Loc = Elts[first[k]].NameLoc
            /\ D.ArgTy = Elts[first[k]].EltType
       /\ DuplicateDiags =
            [n \in 1..(2 * Len(dups)) |->
               IF n % 2 = 1
                 THEN Diag("duplicate_oneof_element", Elts[dups[(n + 1) \div 2]].NameLoc)
                 ELSE Diag("previous_definition",
                           Elts[FirstOf(Elts, dups[n \div 2])].NameLoc)]

\* `a, b: Int, a: Int`, or the like: the name of the first element comes
\* again after another element, with another argument type.
C1_Witness ==
  /\ OneOfReturned
  /\ Len(oo.ElementInfos) = 3
  /\ oo.ElementInfos[1].Name = oo.ElementInfos[3].Name
  /\ oo.ElementInfos[1].Name # oo.ElementInfos[2].Name
  /\ oo.ElementInfos[1].EltType # oo.ElementInfos[3].EltType
  /\ Len(Context[Context[oo.TAD].Underlying[2]].Elements) = 2

StructReturned == st.active /\ pc = "done" /\ ret = RetBool(FALSE)

\* C2: a struct declaration that parses appends two declarations to the
\* result list, after what the list held: the type alias of the name of
\* the struct and the only element of its oneof type; the element has the
\* name of the struct and the type `fields -> alias`, and is in the
\* innermost scope; the member declarations are not appended.  A struct
\* declaration that fails to parse appends nothing.
C2_StructAppendsAliasAndConstructor ==
  /\ StructReturned =>
       LET New == NewDecls IN
       /\ Len(New) = 2
       /\ Decls = SubSeq(Decls, 1, Len(Decls) - 2) \o New
       /\ \A i \in 1..(Len(Decls) - 2) : Decls[i] <= Len(InitialContext)
       /\ New[1] = st.TAD
       /\ Context[New[1]].kind = "TypeAlias"
       /\ Context[New[1]].Name = st.StructName
       /\ Context[New[1]].Underlying[1] = "oneof"
       /\ Context[Context[New[1]].Underlying[2]].kind = "OneOfType"
       /\ Context[Context[New[1]].Underlying[2]].Elements = <<New[2]>>
       /\ Context[New[2]].kind = "OneOfElement"
       /\ Context[New[2]].Name = st.StructName
       /\ Context[New[2]].ArgTy = st.BodyTy
       /\ Context[New[2]].Ty = FunctionType(st.BodyTy, AliasType(New[1]))
       /\ \E j \in 1..Len(ScopeInfo[Len(ScopeInfo)]) : ScopeInfo[Len(ScopeInfo)][j] = New[2]
       /\ \A i \in 1..Len(st.MemberDecls) :
            \A j \in 1..Len(Decls) : Decls[j] # st.MemberDecls[i]
  /\ (st.active /\ ret = RetBool(TRUE)) => NewDecls = <<>>

\* A struct with two fields and a member declaration, appended to a list
\* that holds a declaration already.
C2_Witness ==
  /\ StructReturned
  /\ Len(st.BodyTy[2]) = 2
  /\ st.MemberDecls # <<>>
  /\ Len(Decls) = 3

(***************************************************************************)
(* Properties of protocol declarations.                                    *)
(***************************************************************************)
ProtocolReturned == pr.active /\ pc = "done" /\ ret = RetPtr(pr.TAD) /\ pr.TAD # 0

\* The declarations that parseDeclFunc and parseDeclVar have made for the
\* members of the protocol body.
MemberDeclsOfBody ==
  { d \in 1..Len(Context) :
      /\ Context[d].kind \in {"Func", "Var"}
      /\ Len(Context[d].Loc) = 2
      /\ Context[d].Loc[1] = pr.ProtocolLoc[1] }

\* C10: when a protocol body has parsed, the type alias of the protocol has
\* a new protocol type as underlying type; the elements of that type are
\* the declarations of the members of the body, all of them, in the order
\* in which they are written, and the protocol type is the declaration
\* context of every one of them.
C10_ProtocolMembersInOrder ==
  ProtocolReturned =>
    LET Ty == Context[pr.TAD].Underlying IN
    /\ Ty[1] = "protocol"
    /\ Ty[2] = Len(Context)
    /\ Ty[2] # pr.TAD /\ Ty[2] # CurDeclContext
    /\ Context[Ty[2]].kind = "ProtocolType"
    /\ Context[Ty[2]].Loc = pr.ProtocolLoc
    /\ Len(Context[Ty[2]].Elements) = pr.Members
    /\ \A i \in 1..pr.Members :
         LET D == Context[Context[Ty[2]].Elements[i]] IN
         /\ D.kind \in {"Func", "Var"}
         /\ D.Loc = Append(pr.ProtocolLoc, i)
         /\ D.DC = Ty[2]
    /\ MemberDeclsOfBody = { Context[Ty[2]].Elements[i] : i \in 1..pr.Members }

\* A protocol with a var and then a func has been parsed.
C10_Witness ==
  /\ ProtocolReturned
  /\ pr.Members = 2
  /\ Context[Context[Context[pr.TAD].Underlying[2]].Elements[1]].kind = "Var"
  /\ Context[Context[Context[pr.TAD].Underlying[2]].Elements[2]].kind = "Func"

\* parseDeclVarSimple has returned to parseProtocolBody.
VarSimpleReturned == pc = "proto_var_ret"

\* C11: parseDeclVarSimple returns a VarDecl exactly when parseDeclVar has
\* parsed a declaration whose pattern is a single name; for a parenthesized
\* pattern that parsed, `()` and a pattern none of whose names has a valid
\* path included, it reports non_simple_var and returns null.
C11_OnlySimpleVarAccepted ==
  VarSimpleReturned =>
    /\ (ret # RetPtr(0)) <=> (pr.VarParsed /\ vr.VarName.isSimple)
    /\ (pr.VarParsed /\ ~vr.VarName.isSimple) =>
         /\ ret = RetPtr(0)
         /\ diags # <<>>
         /\ diags[Len(diags)] = Diag("non_simple_var", pr.CurLoc)

(***************************************************************************)
(* Properties of parseDecl and parseTranslationUnit.                       *)
(***************************************************************************)
DeclReturned == pc = "decl_done" /\ pd.active

\* The entries that the call of parseDecl has added to the list.
NewEntries == SubSeq(Decls, pd.EntryStart + 1, Len(Decls))

\* The declaration D is not allowed where the flags of the call hold.
ViolatesFlags(D) ==
  \/ D.kind = "Import" /\ "PD_AllowImport" \notin pd.Flags
  \/ D.kind = "Var" /\ "PD_DisallowVar" \in pd.Flags
  \/ IsNamedDecl(D) /\ isOperator(D) /\ "PD_DisallowOperators" \in pd.Flags

ViolationKind(D) ==
  IF D.kind = "Import" THEN "import_inner_scope"
  ELSE IF D.kind = "Var" /\ "PD_DisallowVar" \in pd.Flags THEN "disallowed_var_decl"
  ELSE "operator_in_decl"

ValidationDiags ==
  SelectSeq(diags, LAMBDA d : d.kind \in {"import_inner_scope", "disallowed_var_decl",
                                          "operator_in_decl"})

\* C12: when parseDecl has returned, every new entry of the list that the
\* flags do not allow has a diagnostic, at its location, and no other
\* declaration has one; the new entries are the declarations that the
\* parser of the declaration produced; a call that has added an entry
\* returns false, violation or not; the entries that the list held on entry
\* are in their places and as they were.
C12_FlagViolationsReportedOnly ==
  DeclReturned =>
    LET viol == SelectSeq(NewEntries, LAMBDA d : ViolatesFlags(Context[d])) IN
    /\ Len(ValidationDiags) = Len(viol)
    /\ \A i \in 1..Len(viol) :
         ValidationDiags[i] = Diag(ViolationKind(Context[viol[i]]), Context[viol[i]].Loc)
    /\ Decls = SelectSeq(pd.Produced, LAMBDA d : d # 0)
    /\ NewEntries # <<>> => ret = RetBool(FALSE)
    /\ SubSeq(Decls, 1, pd.EntryStart) = pd.Entry
    /\ \A i \in 1..Len(pd.Entry) : Context[pd.Entry[i]] = InitialContext[pd.Entry[i]]

\* A var with a parenthesized pattern has been parsed where neither vars
\* nor operators are allowed, the list holding a var already: the new var
\* has its diagnostic, the var that was in the list has none.
C12_Witness ==
  /\ DeclReturned
  /\ pd.Entry # <<>>
  /\ ViolatesFlags(Context[pd.Entry[1]])
  /\ pd.Flags = {"PD_DisallowVar", "PD_DisallowOperators"}
  /\ Len(NewEntries) > 1
  /\ Len(ValidationDiags) = 1
  /\ ret = RetBool(FALSE)

\* The type aliases that were made while the file was parsed.
StubsOfFile ==
  { d \in (Len(InitialContext) + 1)..Len(Context) : Context[d].kind = "TypeAlias" }

\* C13: when parseTranslationUnit has returned, every type alias made while
\* the file was parsed has an underlying type or is in the list of
\* unresolved types of the translation unit, and no type alias of that list
\* has an underlying type.
C13_StubsCompleteOrUnresolved ==
  pc = "tu_done" =>
    LET L == Context[1].UnresolvedTypesForParser IN
    /\ \A d \in StubsOfFile :
         \/ Context[d].Underlying # NullTy
         \/ \E i \in 1..Len(L) : L[i] = d
    /\ \A i \in 1..Len(L) : Context[L[i]].Underlying = NullTy

\* C15: parseDecl never evaluates Entries.back() or pop_back() on an empty
\* list; when the parser of the declaration has produced nothing, the list
\* is as it was on entry and parseDecl returns true.
C15_EmptyListNeverInspected ==
  /\ pd.active => ~pd.BackOnEmpty /\ ~pd.Corrupt
  /\ (pd.active /\ pc \in {"decl_done", "decl_corrupt"} /\ pd.Produced = pd.Entry) =>
       /\ Decls = pd.Entry
       /\ ret = RetBool(TRUE)

(***************************************************************************)
(* Properties of actOnOneOfType.                                           *)
(***************************************************************************)
\* The type aliases whose underlying type is the oneof type at address u.
NamesOfOneOf(u) ==
  { a \in 1..Len(Context) :
      Context[a].kind = "TypeAlias" /\ Context[a].Underlying = OneOfTypeRef(u) }

\* The type the elements of the oneof type at u construct.
ConstructedType(u) ==
  IF NamesOfOneOf(u) # {} THEN AliasType(CHOOSE a \in NamesOfOneOf(u) : TRUE)
  ELSE OneOfTypeRef(u)

\* The member declarations handed to the call of actOnOneOfType that has
\* made the oneof type at u.
MembersOfOneOf(u) ==
  IF oo.active /\ oo.Result = u THEN oo.MemberDecls
  ELSE IF st.active /\ st.TAD \in NamesOfOneOf(u) THEN st.MemberDecls
  ELSE <<>>

\* C14: every element of a oneof type has the oneof type as declaration
\* context, and so has every member declaration of its body; the type of
\* an element with a payload type P is the function type from P to the
\* alias type of the name of the oneof, and that of an element without
\* payload is the alias type; when the oneof has no name the oneof type
\* itself stands in the place of the alias type.
C14_ElementsAndMembersOfOneOf ==
  \A u \in 1..Len(Context) :
    Context[u].kind = "OneOfType" =>
      /\ \A i \in 1..Len(Context[u].Elements) :
           LET E == Context[Context[u].Elements[i]] IN
           /\ E.kind = "OneOfElement"
           /\ E.DC = u
           /\ E.Ty = IF E.ArgTy # NullTy THEN FunctionType(E.ArgTy, ConstructedType(u))
                     ELSE ConstructedType(u)
      /\ \A i \in 1..Len(MembersOfOneOf(u)) : Context[MembersOfOneOf(u)[i]].DC = u

\* A oneof type without name has been made, with an element that has a
\* payload type, an element that has none, and a member declaration.
C14_Witness ==
  /\ oo.active /\ oo.TAD = 0 /\ oo.Result # 0 /\ pc = "done"
  /\ Context[oo.Result].kind = "OneOfType"
  /\ NamesOfOneOf(oo.Result) = {}
  /\ \E i, j \in 1..Len(Context[oo.Result].Elements) :
       /\ Context[Context[oo.Result].Elements[i]].ArgTy # NullTy
       /\ Context[Context[oo.Result].Elements[j]].ArgTy = NullTy
  /\ oo.MemberDecls # <<>>

(***************************************************************************)
(* The loops over the members of a body, token by token.                   *)
(*                                                                         *)
(* The input is a token stream followed by eof.  Of every parser only the  *)
(* movement of the lexer is kept: a parser that is not one of the loops    *)
(* consumes the keyword it is called for and then any number of tokens up  *)
(* to eof, and succeeds or fails.  callers is the stack of the bodies that *)
(* are open, innermost first; IterStart is the position of the lexer at    *)
(* the start of the last round of the loop of the body, 0 before the       *)
(* first.                                                                  *)
(***************************************************************************)
\* The keywords of the switch of parseDecl.
DeclKeywords ==
  {"kw_import", "kw_extension", "kw_var", "kw_typealias", "kw_oneof", "kw_struct",
   "kw_protocol", "kw_func"}
\* The declarations whose body is a loop that calls parseDecl.
BodyKeywords == {"kw_extension", "kw_oneof", "kw_struct"}

LoopTokens ==
  { Punct("kw_extension"), Punct("kw_oneof"), Punct("kw_struct"), Punct("kw_protocol"),
    Punct("kw_func"), Punct("r_brace"), Num(<<"4">>) }
LoopInputs == UNION { [1..n -> LoopTokens] : n \in 0..MaxToks }

\* The position of eof.
EndPos == Len(toks) + 1

\* Parser::skipUntilDeclRBrace: the new position.
skipUntilDeclRBrace(i) == skipUntil(i, DeclKeywords \cup {"r_brace"})

Frame(Body) == [Body |-> Body, IterStart |-> 0]

\* A parser returns to parseDecl, and parseDecl to the loop that called it.
LoopReturn(b, stack) ==
  /\ ret' = RetBool(b)
  /\ callers' = stack
  /\ pc' = IF stack = <<>> THEN "L_done" ELSE "L_skip"

InitLoop ==
  /\ pc = "L_decl"
  /\ toks \in LoopInputs
  /\ pos = 1
  /\ callers = <<>> /\ ret = <<"none">>
  /\ diags = <<>> /\ Attributes = EmptyAttributes /\ HadError = FALSE /\ AttrLoc = 0
  /\ Context = <<>> /\ CurDeclContext = 0 /\ ScopeInfo = <<>> /\ Decls = <<>>
  /\ vr = <<>> /\ fn = <<>> /\ st = <<>> /\ oo = <<>> /\ pr = <<>>
  /\ pd = <<>> /\ ex = <<>> /\ UnresolvedTypeList = <<>>

loopFixed == <<diags, Attributes, HadError, AttrLoc, Context, CurDeclContext, ScopeInfo,
               Decls, vr, fn, st, oo, pr, pd, ex, UnresolvedTypeList, toks>>

\* parseDecl on a token that starts no declaration.
Loop_parseDecl_Default ==
  /\ pc = "L_decl"
  /\ TokAt(pos).kind \notin DeclKeywords
  /\ LoopReturn(TRUE, callers)
  /\ UNCHANGED pos
  /\ UNCHANGED loopFixed

\* parseDecl on import, var, typealias or func.
Loop_parseDecl_Leaf ==
  /\ pc = "L_decl"
  /\ TokAt(pos).kind \in DeclKeywords \ (BodyKeywords \cup {"kw_protocol"})
  /\ \E p \in (pos + 1)..EndPos, failed \in BOOLEAN :
       /\ pos' = p
       /\ LoopReturn(failed, callers)
  /\ UNCHANGED loopFixed

\* parseDecl on extension, oneof or struct, up to the loop over the members.
Loop_parseDecl_Body ==
  /\ pc = "L_decl"
  /\ TokAt(pos).kind \in BodyKeywords
  /\ \E p \in (pos + 1)..EndPos :
       /\ pos' = p
       /\ \/ LoopReturn(TRUE, callers)
          \/ /\ callers' = <<Frame(TokAt(pos).kind)>> \o callers
             /\ pc' = "L_members"
             /\ UNCHANGED ret
  /\ UNCHANGED loopFixed

\* parseDecl on protocol, up to the loop of parseProtocolBody.
Loop_parseDecl_Protocol ==
  /\ pc = "L_decl"
  /\ TokAt(pos).kind = "kw_protocol"
  /\ \E p \in (pos + 1)..EndPos :
       /\ pos' = p
       /\ \/ LoopReturn(TRUE, callers)
          \/ /\ callers' = <<Frame("kw_protocol")>> \o callers
             /\ pc' = "L_proto"
             /\ UNCHANGED ret
  /\ UNCHANGED loopFixed

\* The test of the loop over the members of an extension, oneof or struct
\* body: the call of parseDecl, or the end of the loop and of the
\* declaration.
Loop_Members ==
  /\ pc = "L_members"
  /\ IF TokAt(pos).kind \notin {"r_brace", "eof"}
       THEN /\ callers' = <<[Head(callers) EXCEPT !.IterStart = pos]>> \o Tail(callers)
            /\ pc' = "L_decl"
            /\ UNCHANGED <<pos, ret>>
       ELSE /\ pos' = consumeIf(pos, "r_brace")
            /\ LoopReturn(Head(callers).Body = "kw_struct" /\ TokAt(pos).kind # "r_brace",
                          Tail(callers))
  /\ UNCHANGED loopFixed

\* Loop_Skip without the call of skipUntilDeclRBrace.
Loop_Skip_Never ==
  /\ pc = "L_skip"
  /\ pc' = "L_members"
  /\ UNCHANGED <<pos, callers, ret>>
  /\ UNCHANGED loopFixed

\* The body of the loop after the call of parseDecl.
Loop_Skip ==
  /\ pc = "L_skip"
  /\ pos' = IF ret = RetBool(TRUE) THEN skipUntilDeclRBrace(pos) ELSE pos
  /\ pc' = "L_members"
  /\ UNCHANGED <<callers, ret>>
  /\ UNCHANGED loopFixed

\* One round of the loop of parseProtocolBody.
Loop_Protocol ==
  /\ pc = "L_proto"
  /\ LET K == TokAt(pos).kind
         Again(p) == /\ pos' = p
                     /\ callers' = <<[Head(callers) EXCEPT !.IterStart = pos]>>
                                   \o Tail(callers)
                     /\ UNCHANGED <<pc, ret>>
         Leave(p, b) == /\ pos' = p
                        /\ LoopReturn(b, Tail(callers))
     IN IF K = "r_brace" THEN Leave(pos + 1, FALSE)
        ELSE IF K \in {"kw_func", "kw_var"}
          THEN \E p \in (pos + 1)..EndPos :
                 \/ Leave(p, TRUE)
                 \/ IF TokAt(p).kind = "r_brace" THEN Leave(p + 1, FALSE) ELSE Again(p)
        ELSE Leave(pos, TRUE)
  /\ UNCHANGED loopFixed

NextLoop ==
  \/ Loop_parseDecl_Default \/ Loop_parseDecl_Leaf \/ Loop_parseDecl_Body
  \/ Loop_parseDecl_Protocol \/ Loop_Members \/ Loop_Skip \/ Loop_Protocol

\* The parser is a sequential program: it takes its next step.
SpecLoop == InitLoop /\ [][NextLoop]_vars /\ WF_vars(NextLoop)

\* The loop of the innermost body is at its test after a round that started
\* at the position IterStart.
AfterRound ==
  /\ pc \in {"L_members", "L_proto"}
  /\ Head(callers).IterStart # 0

\* C16: on every token stream that ends in eof the parsing of a declaration
\* terminates, and every round of the loop over the members of an
\* extension, oneof, struct or protocol body that comes back to the test of
\* the loop has consumed a token.
C16_MemberLoopsTerminate ==
  /\ [](AfterRound => pos > Head(callers).IterStart)
  /\ <>(pc = "L_done")

\* A round of the loop of a body has started at a token that starts no
\* declaration: parseDecl has consumed nothing and returned true, and
\* skipUntilDeclRBrace has gone on to the `}` of the body.
C16_Witness ==
  /\ pc = "L_members"
  /\ Head(callers).IterStart # 0
  /\ TokAt(Head(callers).IterStart).kind = "numeric_constant"
  /\ ret = RetBool(TRUE)
  /\ pos > Head(callers).IterStart
  /\ TokAt(pos).kind = "r_brace"

====
